---- MODULE Spec2Model ----
(***************************************************************************)
(* Order-flow pipeline of the NIFTY tools: the volume delta engine         *)
(* (volume_delta_engine.py), the trade classifier                          *)
(* (order_flow_collector.py), the alert detector (order_flow_analyzer.py)  *)
(* and the shared store of the data server (data_server.py).               *)
(*                                                                         *)
(* Prices are Python floats with two decimals; they are modelled as        *)
(* integers in hundredths (26100.50 is 2610050).  A string is modelled as  *)
(* the sequence of its parts: the timestamp "HH:MM:SS.mmm" is              *)
(* <<HH, MM, SS>>, its prefix timestamp[:5] is <<HH, MM>> and "" is <<>>.  *)
(***************************************************************************)
EXTENDS Integers, Sequences, FiniteSets, TLC

VARIABLES
    \* volume_delta_engine.py module globals
    cvd, total_buy_volume, total_sell_volume,
    candle_data, current_minute, footprint_data,
    delta_candle_writer,
    \* rows appended to delta_candles.csv
    candle_log,
    \* history: the arguments of the process_tick calls since the last reset_engine
    ticks,
    \* position of run_dashboard in its start-up / shutdown sequence
    run_pc,
    \* order_flow_collector.py: the carried-forward direction, and the
    \* arguments and result of the last classify_trade_direction call
    last_direction, cls_call, cls_result,
    \* order_flow_analyzer.py module globals
    recent_alerts, price_history, cvd_history,
    \* the last detector call and what it returned; number of
    \* detect_cvd_divergence calls made
    det_call, det_result, n_divergence_calls,
    \* data_server.py: the shared store; the store writes update_data_store
    \* has still to make for the tick it is applying; the store as it was
    \* when that tick arrived; the last response of the HTTP API
    data_store, w_todo, store_before, resp,
    \* get_tick: the statement a /tick request is at (0: none in progress)
    \* and its local futures_data; history: the stores held between two
    \* update_data_store calls
    t_pc, futures_data, instants,
    \* start_angel_websocket: where the feed thread is in its reconnect loop;
    \* the connection as the WebSocket library has it; history: consecutive
    \* attempts that failed to connect, and connections opened so far
    conn_pc, link, failures, n_opens, sent,
    \* order_flow_dashboard.py: the polling thread (where it is in its loop
    \* and in on_tick, its locals), the module's globals; history: the ticks
    \* the polling thread handed to on_tick, and what animate last drew
    poll, dashboard, fetched, chart,
    \* the frame last handed to a parser or to on_message, and what the call
    \* returned or passed to update_data_store
    message, decoded,
    \* rows appended to alerts.csv and to order_flow_ticks.csv; history: how
    \* the last pass of the polling loop went, and one earlier
    \* classify_trade_direction call with its result
    alerts_log, order_flow_log, cycle, cls_kept

engineVars == <<cvd, total_buy_volume, total_sell_volume, candle_data,
                current_minute, footprint_data, delta_candle_writer,
                candle_log, ticks, run_pc>>

classifierVars == <<last_direction, cls_call, cls_result>>

analyzerVars == <<recent_alerts, price_history, cvd_history,
                  det_call, det_result, n_divergence_calls>>

storeVars == <<data_store, w_todo, store_before, resp, t_pc, futures_data, instants>>

connVars == <<conn_pc, link, failures, n_opens, sent>>

dashVars == <<poll, dashboard, fetched, chart>>

parserVars == <<message, decoded>>

logVars == <<alerts_log, order_flow_log, cycle, cls_kept>>

vars == <<engineVars, classifierVars, analyzerVars, storeVars, connVars, dashVars,
         parserVars, logVars>>

----------------------------------------------------------------------------
(* Bounds and input sets *)

MaxTicks == 3

Directions == {"BUY", "SELL"}
Quantities == {75, 150, 225}
Prices == {2609900, 2610050, 2610100}
Timestamps == {<<9, 15, 1>>, <<9, 15, 2>>, <<9, 16, 1>>}

EmptyMap == [k \in {} |-> 0]
\* d.get(k, default)
DictGet(d, k, default) == IF k \in DOMAIN d THEN d[k] ELSE default

\* d[k] = v
DictSet(d, k, v) == [x \in DOMAIN d \cup {k} |-> IF x = k THEN v ELSE d[x]]

\* d.update(values)
DictUpdate(d, values) ==
    [x \in DOMAIN d \cup DOMAIN values |-> IF x \in DOMAIN values THEN values[x] ELSE d[x]]

Max(a, b) == IF a >= b THEN a ELSE b
Min(a, b) == IF a <= b THEN a ELSE b

----------------------------------------------------------------------------
(* volume_delta_engine.py *)

\* current_minute = "" : no candle is open
NoMinute == <<>>

\* round(price): Python rounds a float to the nearest integer, ties to even
RoundPrice(price) ==
    LET q == price \div 100
        r == price % 100
    IN  IF r < 50 THEN q
        ELSE IF r > 50 THEN q + 1
        ELSE IF q % 2 = 0 THEN q ELSE q + 1

\* timestamp[:5], the "HH:MM" prefix
MinuteKey(timestamp) == SubSeq(timestamp, 1, 2)

\* f"{x:.2f}" of a ratio buy/sell, in hundredths (ties to even)
Ratio2f(buy, sell) ==
    LET n == 100 * buy
        q == n \div sell
        r2 == 2 * (n % sell)
    IN  IF r2 < sell THEN q
        ELSE IF r2 > sell THEN q + 1
        ELSE IF q % 2 = 0 THEN q ELSE q + 1

CvdAfter_SignDropped(c, direction, quantity) == c + quantity

CvdAfter(c, direction, quantity) ==
    IF direction = "BUY" THEN c + quantity ELSE c - quantity

FootprintAfter_Unsplit(fp, direction, quantity, level) ==
    LET old == IF level \in DOMAIN fp THEN fp[level] ELSE [buy |-> 0, sell |-> 0]
    IN  [l \in DOMAIN fp \cup {level} |->
            IF l = level THEN [old EXCEPT !.buy = @ + quantity] ELSE fp[l]]

\* footprint_data[price_level][side] += quantity on a defaultdict
FootprintAfter(fp, direction, quantity, level) ==
    LET old == IF level \in DOMAIN fp THEN fp[level] ELSE [buy |-> 0, sell |-> 0]
        new == IF direction = "BUY"
               THEN [old EXCEPT !.buy = @ + quantity]
               ELSE [old EXCEPT !.sell = @ + quantity]
    IN  [l \in DOMAIN fp \cup {level} |-> IF l = level THEN new ELSE fp[l]]

NewCandle(price, c) ==
    [open |-> price, high |-> price, low |-> price, close |-> price,
     buy_vol |-> 0, sell_vol |-> 0, delta |-> 0, cvd |-> c, tick_count |-> 0]

UpdateCandle_HighIsLast(candle, direction, quantity, price, c) ==
    LET bv == IF direction = "BUY" THEN candle.buy_vol + quantity ELSE candle.buy_vol
        sv == IF direction = "BUY" THEN candle.sell_vol ELSE candle.sell_vol + quantity
    IN  [candle EXCEPT !.high = price,
                       !.low = Min(candle.low, price),
                       !.close = price,
                       !.tick_count = @ + 1,
                       !.buy_vol = bv, !.sell_vol = sv,
                       !.delta = bv - sv,
                       !.cvd = c]

UpdateCandle_Uncounted(candle, direction, quantity, price, c) ==
    LET bv == IF direction = "BUY" THEN candle.buy_vol + quantity ELSE candle.buy_vol
        sv == IF direction = "BUY" THEN candle.sell_vol ELSE candle.sell_vol + quantity
    IN  [candle EXCEPT !.high = Max(candle.high, price),
                       !.low = Min(candle.low, price),
                       !.close = price,
                       !.buy_vol = bv, !.sell_vol = sv,
                       !.delta = bv - sv,
                       !.cvd = c]

UpdateCandle(candle, direction, quantity, price, c) ==
    LET bv == IF direction = "BUY" THEN candle.buy_vol + quantity ELSE candle.buy_vol
        sv == IF direction = "BUY" THEN candle.sell_vol ELSE candle.sell_vol + quantity
    IN  [candle EXCEPT !.high = Max(candle.high, price),
                       !.low = Min(candle.low, price),
                       !.close = price,
                       !.tick_count = @ + 1,
                       !.buy_vol = bv, !.sell_vol = sv,
                       !.delta = bv - sv,
                       !.cvd = c]

\* the candle part of process_tick: open a candle when the minute changed,
\* then update the candle of the tick's minute
CandlesAfter(cd, cur, key, direction, quantity, price, c) ==
    LET base == IF key /= cur THEN NewCandle(price, c) ELSE cd[key]
    IN  [k \in DOMAIN cd \cup {key} |->
            IF k = key THEN UpdateCandle(base, direction, quantity, price, c)
            ELSE cd[k]]

CandleRow(minute_key, candle) ==
    [timestamp |-> minute_key,
     open |-> candle.open, high |-> candle.high,
     low |-> candle.low, close |-> candle.close,
     buy_vol |-> candle.buy_vol, sell_vol |-> candle.sell_vol,
     delta |-> candle.delta,
     imbalance_ratio |-> IF candle.sell_vol > 0
                         THEN Ratio2f(candle.buy_vol, candle.sell_vol) ELSE 0,
     cvd |-> candle.cvd, tick_count |-> candle.tick_count]

save_candle_Dropped(log, writer, cd, minute_key) == log

\* save_candle: the candle log after the call
save_candle(log, writer, cd, minute_key) ==
    IF writer = "None" THEN log
    ELSE IF minute_key \notin DOMAIN cd THEN log
    ELSE Append(log, CandleRow(minute_key, cd[minute_key]))

\* the module's state as loaded
FreshEngine ==
    [cvd |-> 0, total_buy_volume |-> 0, total_sell_volume |-> 0,
     candle_data |-> EmptyMap, current_minute |-> NoMinute, footprint_data |-> EmptyMap]

\* process_tick on the engine state e, for a tick t of minute t.minute
EngineAfterTick(e, t) ==
    LET c == CvdAfter(e.cvd, t.direction, t.quantity)
    IN  [cvd |-> c,
         total_buy_volume |-> IF t.direction = "BUY"
                              THEN e.total_buy_volume + t.quantity
                              ELSE e.total_buy_volume,
         total_sell_volume |-> IF t.direction = "BUY"
                               THEN e.total_sell_volume
                               ELSE e.total_sell_volume + t.quantity,
         candle_data |-> CandlesAfter(e.candle_data, e.current_minute, t.minute,
                                      t.direction, t.quantity, t.price, c),
         current_minute |-> t.minute,
         footprint_data |-> FootprintAfter(e.footprint_data, t.direction, t.quantity,
                                           RoundPrice(t.price))]

\* process_tick for every tick of s, in order
RECURSIVE EngineAfterTicks(_, _)
EngineAfterTicks(e, s) ==
    IF s = <<>> THEN e ELSE EngineAfterTicks(EngineAfterTick(e, Head(s)), Tail(s))

reset_engine_FootprintKept ==
    /\ cvd' = 0
    /\ total_buy_volume' = 0
    /\ total_sell_volume' = 0
    /\ candle_data' = EmptyMap
    /\ current_minute' = NoMinute
    /\ ticks' = <<>>
    /\ UNCHANGED <<footprint_data, delta_candle_writer, candle_log>>

reset_engine ==
    /\ cvd' = 0
    /\ total_buy_volume' = 0
    /\ total_sell_volume' = 0
    /\ candle_data' = EmptyMap
    /\ current_minute' = NoMinute
    /\ footprint_data' = EmptyMap
    /\ ticks' = <<>>
    /\ UNCHANGED <<delta_candle_writer, candle_log>>

process_tick(direction, quantity, price, timestamp) ==
    LET c == CvdAfter(cvd, direction, quantity)
        price_level == RoundPrice(price)
        minute_key == MinuteKey(timestamp)
    IN  /\ total_buy_volume' =
               IF direction = "BUY" THEN total_buy_volume + quantity
               ELSE total_buy_volume
        /\ total_sell_volume' =
               IF direction = "BUY" THEN total_sell_volume
               ELSE total_sell_volume + quantity
        /\ cvd' = c
        /\ footprint_data' = FootprintAfter(footprint_data, direction, quantity, price_level)
        /\ candle_log' =
               IF /\ minute_key /= current_minute
                  /\ current_minute /= NoMinute
                  /\ current_minute \in DOMAIN candle_data
               THEN save_candle(candle_log, delta_candle_writer, candle_data, current_minute)
               ELSE candle_log
        /\ current_minute' = minute_key
        /\ candle_data' = CandlesAfter(candle_data, current_minute, minute_key,
                                       direction, quantity, price, c)
        /\ ticks' = Append(ticks, [direction |-> direction, quantity |-> quantity,
                                   price |-> price, minute |-> minute_key])
        /\ UNCHANGED delta_candle_writer

RECURSIVE Gcd(_, _)
Gcd(a, b) == IF b = 0 THEN a ELSE Gcd(b, a % b)

\* a / b of two non-negative integers, b > 0: the quotient as the fraction
\* <<numerator, denominator>> in lowest terms
Quotient(a, b) == <<a \div Gcd(a, b), b \div Gcd(a, b)>>

\* the number 0 a ratio falls back to
ZeroRatio == <<0, 1>>

ImbalanceRatio_SellOverBuy(buy, sell) ==
    IF buy > 0 THEN Quotient(sell, buy) ELSE ZeroRatio

\* (total_buy_volume / total_sell_volume) if total_sell_volume > 0 else 0
ImbalanceRatio(buy, sell) ==
    IF sell > 0 THEN Quotient(buy, sell) ELSE ZeroRatio

\* get_current_state on the engine state (c, tbv, tsv, cm, cd)
CurrentState(c, tbv, tsv, cm, cd) ==
    [cvd |-> c,
     total_buy_volume |-> tbv,
     total_sell_volume |-> tsv,
     net_delta |-> tbv - tsv,
     current_candle |-> DictGet(cd, cm, EmptyMap),
     imbalance_ratio |-> ImbalanceRatio(tbv, tsv)]

get_current_state ==
    CurrentState(cvd, total_buy_volume, total_sell_volume, current_minute, candle_data)

\* candle_data.copy()
get_all_candles == candle_data

\* one entry of the display list
FootprintEntry(price, volumes) ==
    [price |-> price,
     buy_vol |-> volumes.buy,
     sell_vol |-> volumes.sell,
     delta |-> volumes.buy - volumes.sell,
     total |-> volumes.buy + volumes.sell,
     imbalance |-> IF volumes.sell > 0 THEN Quotient(volumes.buy, volumes.sell)
                   ELSE "inf"]

\* for price, volumes in sorted(footprint_data.items(), reverse=True): the
\* entries of the levels in S, highest price first
RECURSIVE EntriesByPriceDesc(_, _)
EntriesByPriceDesc(fp, S) ==
    IF S = {} THEN <<>>
    ELSE LET top == CHOOSE x \in S : \A y \in S : x >= y
         IN  <<FootprintEntry(top, fp[top])>> \o EntriesByPriceDesc(fp, S \ {top})

\* an entry put into a list sorted by total descending, behind the entries
\* of the same total
RECURSIVE InsertByTotal(_, _)
InsertByTotal(sorted, e) ==
    IF sorted = <<>> THEN <<e>>
    ELSE IF Head(sorted).total >= e.total
         THEN <<Head(sorted)>> \o InsertByTotal(Tail(sorted), e)
         ELSE <<e>> \o sorted

SortByTotal_Unsorted(result) == result

\* result.sort(key=lambda x: x['total'], reverse=True): a stable sort
RECURSIVE SortByTotal(_)
SortByTotal(result) ==
    IF result = <<>> THEN <<>>
    ELSE InsertByTotal(SortByTotal(SubSeq(result, 1, Len(result) - 1)),
                       result[Len(result)])

\* get_footprint_for_display on the footprint fp
FootprintForDisplay(fp, num_levels) ==
    IF DOMAIN fp = {} THEN <<>>
    ELSE LET result == SortByTotal(EntriesByPriceDesc(fp, DOMAIN fp))
         IN  SubSeq(result, 1, Min(num_levels, Len(result)))

get_footprint_for_display(num_levels) == FootprintForDisplay(footprint_data, num_levels)

init_delta_files ==
    /\ delta_candle_writer' = "open"
    /\ UNCHANGED <<cvd, total_buy_volume, total_sell_volume, candle_data,
                   current_minute, footprint_data, candle_log, ticks>>

close_delta_files ==
    /\ candle_log' =
           IF current_minute /= NoMinute /\ current_minute \in DOMAIN candle_data
           THEN save_candle(candle_log, delta_candle_writer, candle_data, current_minute)
           ELSE candle_log
    /\ delta_candle_writer' = "None"
    /\ UNCHANGED <<cvd, total_buy_volume, total_sell_volume, candle_data,
                   current_minute, footprint_data, ticks>>

----------------------------------------------------------------------------
(* order_flow_collector.py: classify_trade_direction *)

ClassifyDirection_StrictAsk(ltp, best_bids, best_asks, prev_ltp, last) ==
    LET best_bid == IF best_bids /= <<>> THEN best_bids[1] ELSE 0
        best_ask == IF best_asks /= <<>> THEN best_asks[1] ELSE 0
    IN  IF best_ask > 0 /\ ltp > best_ask THEN "BUY"
        ELSE IF best_bid > 0 /\ ltp <= best_bid THEN "SELL"
        ELSE IF prev_ltp > 0
             THEN IF ltp > prev_ltp THEN "BUY"
                  ELSE IF ltp < prev_ltp THEN "SELL"
                  ELSE last
        ELSE last

ClassifyDirection_RemembersCall(ltp, best_bids, best_asks, prev_ltp, last) ==
    LET best_bid == IF best_bids /= <<>> THEN best_bids[1] ELSE 0
        best_ask == IF best_asks /= <<>> THEN best_asks[1] ELSE 0
    IN  IF best_ask > 0 /\ ltp >= best_ask THEN "BUY"
        ELSE IF best_bid > 0 /\ ltp <= best_bid THEN "SELL"
        ELSE IF prev_ltp > 0
             THEN IF ltp > prev_ltp THEN "BUY"
                  ELSE IF ltp < prev_ltp THEN "SELL"
                  ELSE last
        ELSE IF cls_call.ltp > ltp THEN "SELL" ELSE last

\* the direction classify_trade_direction returns when last_direction is last
ClassifyDirection(ltp, best_bids, best_asks, prev_ltp, last) ==
    LET best_bid == IF best_bids /= <<>> THEN best_bids[1] ELSE 0
        best_ask == IF best_asks /= <<>> THEN best_asks[1] ELSE 0
    IN  IF best_ask > 0 /\ ltp >= best_ask THEN "BUY"
        ELSE IF best_bid > 0 /\ ltp <= best_bid THEN "SELL"
        ELSE IF prev_ltp > 0
             THEN IF ltp > prev_ltp THEN "BUY"
                  ELSE IF ltp < prev_ltp THEN "SELL"
                  ELSE last
        ELSE last

classify_trade_direction(ltp, best_bids, best_asks, prev_ltp) ==
    LET direction == ClassifyDirection(ltp, best_bids, best_asks, prev_ltp, last_direction)
    IN  /\ last_direction' = direction
        /\ cls_result' = direction
        /\ cls_call' = [ltp |-> ltp, best_bids |-> best_bids, best_asks |-> best_asks,
                        prev_ltp |-> prev_ltp, last_direction |-> last_direction]

----------------------------------------------------------------------------
(* order_flow_analyzer.py *)

NIFTY_LOT_SIZE == 75
BIG_BLOCK_THRESHOLD == 50 * NIFTY_LOT_SIZE
RecentAlertsMaxLen == 100
HistoryMaxLen == 20

NoAlert == [alert_type |-> "None"]

\* x in dq
InDeque(x, dq) == \E v \in {x} : \E i \in 1..Len(dq) : dq[i] = v

DequeAppend_Unbounded(dq, x, maxlen) == Append(dq, x)

\* deque(maxlen=...).append(x): a full deque drops its leftmost element
DequeAppend(dq, x, maxlen) ==
    IF Len(dq) >= maxlen THEN Append(Tail(dq), x) ELSE Append(dq, x)

\* f"{price:.0f}": the price to the nearest integer, ties to even
Format0f(price) == RoundPrice(price)

\* f"BIG_BLOCK_{direction}_{price:.0f}"
BigBlockKey(direction, price) ==
    "BIG_BLOCK_" \o direction \o "_" \o ToString(Format0f(price))

BigBlockSeverity_Above100(quantity) ==
    IF quantity \div NIFTY_LOT_SIZE > 100 THEN "CRITICAL" ELSE "WARNING"

BigBlockSeverity(quantity) ==
    IF quantity \div NIFTY_LOT_SIZE >= 100 THEN "CRITICAL" ELSE "WARNING"

BigBlockAlert(quantity, direction, price) ==
    [alert_type |-> "BIG_BLOCK", direction |-> direction, price |-> price,
     details |-> <<direction, quantity \div NIFTY_LOT_SIZE, "lots", quantity, "qty">>,
     severity |-> BigBlockSeverity(quantity)]

BigBlockOutcome_NoDedup(quantity, direction, price, ra) ==
    IF quantity >= BIG_BLOCK_THRESHOLD
    THEN [alert |-> BigBlockAlert(quantity, direction, price),
          recent |-> DequeAppend(ra, BigBlockKey(direction, price), RecentAlertsMaxLen)]
    ELSE [alert |-> NoAlert, recent |-> ra]

BigBlockOutcome_Refreshed(quantity, direction, price, ra) ==
    IF quantity >= BIG_BLOCK_THRESHOLD /\ ~InDeque(BigBlockKey(direction, price), ra)
    THEN [alert |-> BigBlockAlert(quantity, direction, price),
          recent |-> DequeAppend(ra, BigBlockKey(direction, price), RecentAlertsMaxLen)]
    ELSE IF quantity >= BIG_BLOCK_THRESHOLD
    THEN [alert |-> NoAlert,
          recent |-> Append(SelectSeq(ra, LAMBDA k : k /= BigBlockKey(direction, price)),
                            BigBlockKey(direction, price))]
    ELSE [alert |-> NoAlert, recent |-> ra]

\* detect_big_block: what it returns and the dedup deque it leaves
BigBlockOutcome(quantity, direction, price, ra) ==
    IF quantity >= BIG_BLOCK_THRESHOLD /\ ~InDeque(BigBlockKey(direction, price), ra)
    THEN [alert |-> BigBlockAlert(quantity, direction, price),
          recent |-> DequeAppend(ra, BigBlockKey(direction, price), RecentAlertsMaxLen)]
    ELSE [alert |-> NoAlert, recent |-> ra]

detect_big_block(quantity, direction, price) ==
    LET out == BigBlockOutcome(quantity, direction, price, recent_alerts)
    IN  /\ recent_alerts' = out.recent
        /\ det_result' = out.alert
        /\ det_call' = [op |-> "detect_big_block", quantity |-> quantity,
                        direction |-> direction, price |-> price]
        /\ UNCHANGED <<price_history, cvd_history, n_divergence_calls>>

RECURSIVE SeqSum(_)
SeqSum(s) == IF s = <<>> THEN 0 ELSE Head(s) + SeqSum(Tail(s))

\* mean(second) - mean(first) > limit, on exact fractions
TrendAbove(first, second, limit) ==
    SeqSum(second) * Len(first) - SeqSum(first) * Len(second)
        > limit * Len(first) * Len(second)

TrendBelow(first, second, limit) ==
    SeqSum(second) * Len(first) - SeqSum(first) * Len(second)
        < limit * Len(first) * Len(second)

DivergenceAlert(direction, price) ==
    [alert_type |-> "CVD_DIVERGENCE", direction |-> direction, price |-> price,
     details |-> IF direction = "BEARISH"
                 THEN <<"Price rising but CVD falling. Potential weakness.">>
                 ELSE <<"Price falling but CVD rising. Potential strength.">>,
     severity |-> "WARNING"]

DivergenceOutcome_NoDedup(ph, ch, ra, current_price) ==
    LET half == Len(ph) \div 2
        p1 == SubSeq(ph, 1, half)
        p2 == SubSeq(ph, half + 1, Len(ph))
        c1 == SubSeq(ch, 1, half)
        c2 == SubSeq(ch, half + 1, Len(ch))
        bearish == TrendAbove(p1, p2, 10 * 100) /\ TrendBelow(c1, c2, -1000)
        bullish == TrendBelow(p1, p2, -10 * 100) /\ TrendAbove(c1, c2, 1000)
        direction == IF bearish THEN "BEARISH" ELSE "BULLISH"
        key == "DIVERGENCE_" \o direction
    IN  IF Len(ph) < 10 \/ ~(bearish \/ bullish)
        THEN [alert |-> NoAlert, recent |-> ra]
        ELSE [alert |-> DivergenceAlert(direction, current_price),
              recent |-> DequeAppend(ra, key, RecentAlertsMaxLen)]

\* detect_cvd_divergence after the two appends: ph and ch are the histories
\* with the new point, ra the dedup deque
DivergenceOutcome(ph, ch, ra, current_price) ==
    LET half == Len(ph) \div 2
        p1 == SubSeq(ph, 1, half)
        p2 == SubSeq(ph, half + 1, Len(ph))
        c1 == SubSeq(ch, 1, half)
        c2 == SubSeq(ch, half + 1, Len(ch))
        bearish == TrendAbove(p1, p2, 10 * 100) /\ TrendBelow(c1, c2, -1000)
        bullish == TrendBelow(p1, p2, -10 * 100) /\ TrendAbove(c1, c2, 1000)
        direction == IF bearish THEN "BEARISH" ELSE "BULLISH"
        key == "DIVERGENCE_" \o direction
    IN  IF Len(ph) < 10 \/ ~(bearish \/ bullish) \/ InDeque(key, ra)
        THEN [alert |-> NoAlert, recent |-> ra]
        ELSE [alert |-> DivergenceAlert(direction, current_price),
              recent |-> DequeAppend(ra, key, RecentAlertsMaxLen)]

detect_cvd_divergence(current_price, current_cvd) ==
    LET ph == DequeAppend(price_history, current_price, HistoryMaxLen)
        ch == DequeAppend(cvd_history, current_cvd, HistoryMaxLen)
        out == DivergenceOutcome(ph, ch, recent_alerts, current_price)
    IN  /\ price_history' = ph
        /\ cvd_history' = ch
        /\ recent_alerts' = out.recent
        /\ det_result' = out.alert
        /\ det_call' = [op |-> "detect_cvd_divergence", current_price |-> current_price,
                        current_cvd |-> current_cvd]
        /\ n_divergence_calls' = n_divergence_calls + 1

reset_analyzer ==
    /\ recent_alerts' = <<>>
    /\ price_history' = <<>>
    /\ cvd_history' = <<>>
    /\ det_call' = [op |-> "reset_analyzer"]
    /\ det_result' = NoAlert
    /\ UNCHANGED n_divergence_calls

\* IMBALANCE_THRESHOLD = 2.5, in tenths
IMBALANCE_THRESHOLD_TENTHS == 25
ABSORPTION_PRICE_RANGE == 5
ABSORPTION_VOLUME_THRESHOLD == 10000
STACKED_ORDERS_THRESHOLD == 3
STACKED_QTY_THRESHOLD == 5000

\* f"{ratio:.1f}" of the ratio n/d, in tenths (ties to even)
Ratio1f(n, d) ==
    LET m == 10 * n
        q == m \div d
        r2 == 2 * (m % d)
    IN  IF r2 < d THEN q
        ELSE IF r2 > d THEN q + 1
        ELSE IF q % 2 = 0 THEN q ELSE q + 1

ImbalanceAlert(direction, ratio, buy_volume, sell_volume, price) ==
    [alert_type |-> "IMBALANCE", direction |-> direction, price |-> price,
     details |-> <<direction, "imbalance", ratio, "Buy", buy_volume, "Sell", sell_volume>>,
     severity |-> "INFO"]

ImbalanceOutcome_StrictlyAbove(buy_volume, sell_volume, price) ==
    IF buy_volume = 0 /\ sell_volume = 0 THEN NoAlert
    ELSE IF sell_volume = 0 /\ buy_volume > 0
    THEN ImbalanceAlert("BUY", "inf", buy_volume, sell_volume, price)
    ELSE IF buy_volume = 0 /\ sell_volume > 0
    THEN ImbalanceAlert("SELL", "inf", buy_volume, sell_volume, price)
    ELSE IF 10 * buy_volume > IMBALANCE_THRESHOLD_TENTHS * sell_volume
    THEN ImbalanceAlert("BUY", Ratio1f(buy_volume, sell_volume), buy_volume, sell_volume, price)
    ELSE IF 10 * sell_volume > IMBALANCE_THRESHOLD_TENTHS * buy_volume
    THEN ImbalanceAlert("SELL", Ratio1f(sell_volume, buy_volume), buy_volume, sell_volume, price)
    ELSE NoAlert

\* detect_imbalance: what it returns, for volumes >= 0
ImbalanceOutcome(buy_volume, sell_volume, price) ==
    IF buy_volume = 0 /\ sell_volume = 0 THEN NoAlert
    ELSE IF sell_volume = 0 /\ buy_volume > 0
    THEN ImbalanceAlert("BUY", "inf", buy_volume, sell_volume, price)
    ELSE IF buy_volume = 0 /\ sell_volume > 0
    THEN ImbalanceAlert("SELL", "inf", buy_volume, sell_volume, price)
    ELSE IF 10 * buy_volume >= IMBALANCE_THRESHOLD_TENTHS * sell_volume
    THEN ImbalanceAlert("BUY", Ratio1f(buy_volume, sell_volume), buy_volume, sell_volume, price)
    ELSE IF 10 * sell_volume >= IMBALANCE_THRESHOLD_TENTHS * buy_volume
    THEN ImbalanceAlert("SELL", Ratio1f(sell_volume, buy_volume), buy_volume, sell_volume, price)
    ELSE NoAlert

detect_imbalance(buy_volume, sell_volume, price) ==
    /\ det_result' = ImbalanceOutcome(buy_volume, sell_volume, price)
    /\ det_call' = [op |-> "detect_imbalance", buy_volume |-> buy_volume,
                    sell_volume |-> sell_volume, price |-> price]
    /\ UNCHANGED <<recent_alerts, price_history, cvd_history, n_divergence_calls>>

\* sum(1 for qty in quantities if qty >= STACKED_QTY_THRESHOLD)
RECURSIVE StackedCount(_)
StackedCount(quantities) ==
    IF quantities = <<>> THEN 0
    ELSE (IF Head(quantities) >= STACKED_QTY_THRESHOLD THEN 1 ELSE 0)
         + StackedCount(Tail(quantities))

StackedAlert(side, prices, quantities) ==
    [alert_type |-> "STACKED_ORDERS", direction |-> side,
     price |-> IF prices /= <<>> THEN prices[1] ELSE 0,
     details |-> <<"Stacked", side, StackedCount(quantities), "levels",
                   SeqSum(quantities), "total qty">>,
     severity |-> "INFO"]

StackedOutcome_AsksFirst(bid_prices, bid_quantities, ask_prices, ask_quantities) ==
    IF StackedCount(ask_quantities) >= STACKED_ORDERS_THRESHOLD
    THEN StackedAlert("ASK", ask_prices, ask_quantities)
    ELSE IF StackedCount(bid_quantities) >= STACKED_ORDERS_THRESHOLD
    THEN StackedAlert("BID", bid_prices, bid_quantities)
    ELSE NoAlert

\* detect_stacked_orders: the bids are checked first, and a BID alert returns
\* before the asks are looked at
StackedOutcome(bid_prices, bid_quantities, ask_prices, ask_quantities) ==
    IF StackedCount(bid_quantities) >= STACKED_ORDERS_THRESHOLD
    THEN StackedAlert("BID", bid_prices, bid_quantities)
    ELSE IF StackedCount(ask_quantities) >= STACKED_ORDERS_THRESHOLD
    THEN StackedAlert("ASK", ask_prices, ask_quantities)
    ELSE NoAlert

detect_stacked_orders(bid_prices, bid_quantities, ask_prices, ask_quantities) ==
    /\ det_result' = StackedOutcome(bid_prices, bid_quantities, ask_prices, ask_quantities)
    /\ det_call' = [op |-> "detect_stacked_orders",
                    bid_prices |-> bid_prices, bid_quantities |-> bid_quantities,
                    ask_prices |-> ask_prices, ask_quantities |-> ask_quantities]
    /\ UNCHANGED <<recent_alerts, price_history, cvd_history, n_divergence_calls>>

\* range_low <= price <= range_high: level prices are whole points, the
\* current price is in hundredths
InAbsorptionRange(item, current_price) ==
    LET price == 100 * DictGet(item, "price", 0)
    IN  /\ current_price - 100 * ABSORPTION_PRICE_RANGE <= price
        /\ price <= current_price + 100 * ABSORPTION_PRICE_RANGE

\* the loop of detect_absorption: volume of one side over the levels in range
RECURSIVE VolInRange(_, _, _)
VolInRange(price_levels_data, current_price, side) ==
    IF price_levels_data = <<>> THEN 0
    ELSE (IF InAbsorptionRange(Head(price_levels_data), current_price)
          THEN DictGet(Head(price_levels_data), side, 0) ELSE 0)
         + VolInRange(Tail(price_levels_data), current_price, side)

AbsorptionAlert(direction, current_price, buy_vol_in_range, sell_vol_in_range) ==
    [alert_type |-> "ABSORPTION", direction |-> direction, price |-> current_price,
     details |-> <<direction, "Buy", buy_vol_in_range, "Sell", sell_vol_in_range>>,
     severity |-> "WARNING"]

AbsorptionOutcome_AllLevels(price_levels_data, current_price) ==
    LET buy_vol_in_range == SeqSum([i \in 1..Len(price_levels_data) |->
                                       DictGet(price_levels_data[i], "buy_vol", 0)])
        sell_vol_in_range == SeqSum([i \in 1..Len(price_levels_data) |->
                                        DictGet(price_levels_data[i], "sell_vol", 0)])
    IN  IF buy_vol_in_range + sell_vol_in_range < ABSORPTION_VOLUME_THRESHOLD THEN NoAlert
        ELSE IF 2 * sell_vol_in_range > 3 * buy_vol_in_range
        THEN AbsorptionAlert("BUY_ABSORBING", current_price, buy_vol_in_range, sell_vol_in_range)
        ELSE IF 2 * buy_vol_in_range > 3 * sell_vol_in_range
        THEN AbsorptionAlert("SELL_ABSORBING", current_price, buy_vol_in_range, sell_vol_in_range)
        ELSE NoAlert

\* detect_absorption: what it returns (x > y * 1.5 is 2x > 3y)
AbsorptionOutcome(price_levels_data, current_price) ==
    LET buy_vol_in_range == VolInRange(price_levels_data, current_price, "buy_vol")
        sell_vol_in_range == VolInRange(price_levels_data, current_price, "sell_vol")
    IN  IF price_levels_data = <<>> THEN NoAlert
        ELSE IF buy_vol_in_range + sell_vol_in_range < ABSORPTION_VOLUME_THRESHOLD THEN NoAlert
        ELSE IF 2 * sell_vol_in_range > 3 * buy_vol_in_range
        THEN AbsorptionAlert("BUY_ABSORBING", current_price, buy_vol_in_range, sell_vol_in_range)
        ELSE IF 2 * buy_vol_in_range > 3 * sell_vol_in_range
        THEN AbsorptionAlert("SELL_ABSORBING", current_price, buy_vol_in_range, sell_vol_in_range)
        ELSE NoAlert

detect_absorption(price_levels_data, current_price) ==
    /\ det_result' = AbsorptionOutcome(price_levels_data, current_price)
    /\ det_call' = [op |-> "detect_absorption", price_levels_data |-> price_levels_data,
                    current_price |-> current_price]
    /\ UNCHANGED <<recent_alerts, price_history, cvd_history, n_divergence_calls>>

----------------------------------------------------------------------------
(* nifty_option_chain.py, data_server.py, angelone_test.py: the frame parsers.
   A frame is the sequence of its bytes; data[a:b] is SubSeq(data, a + 1, b),
   cut at the end of the frame as a Python slice is *)

\* what a parser returns when it fails
None == [type |-> "NoneType"]

\* data[a:b]
Slice(data, a, b) == SubSeq(data, a + 1, Min(b, Len(data)))

\* the value of the bytes b as an unsigned little-endian number
RECURSIVE UnsignedLE(_)
UnsignedLE(b) ==
    IF b = <<>> THEN 0 ELSE Head(b) + 256 * UnsignedLE(Tail(b))

\* struct.unpack('<q', b)[0] of eight bytes: two's complement, little-endian
Unpack_q(b) ==
    IF b[8] < 128 THEN UnsignedLE(b)
    ELSE -UnsignedLE([i \in 1..8 |-> 255 - b[i]]) - 1

\* struct.unpack('<H', b)[0] of two bytes
Unpack_H(b) == b[1] + 256 * b[2]

\* bytes.decode('utf-8') succeeds; the frames considered hold ASCII bytes and
\* the byte 255, which no UTF-8 text contains
Utf8Decodes(b) == \A i \in 1..Len(b) : b[i] < 128

RECURSIVE LStripNul(_)
LStripNul(text) ==
    IF text /= <<>> /\ Head(text) = 0 THEN LStripNul(Tail(text)) ELSE text

RECURSIVE RStripNul(_)
RStripNul(text) ==
    IF text /= <<>> /\ text[Len(text)] = 0
    THEN RStripNul(SubSeq(text, 1, Len(text) - 1))
    ELSE text

\* the text of the code points, NUL written as <NUL>
RECURSIVE Chars(_)
Chars(text) ==
    IF text = <<>> THEN ""
    ELSE (IF Head(text) = 0 THEN "<NUL>"
          ELSE IF Head(text) \in 48..57 THEN ToString(Head(text) - 48)
          ELSE "?") \o Chars(Tail(text))

\* data[2:27].decode('utf-8').strip('\x00')
DecodeToken(field) == Chars(LStripNul(RStripNul(field)))

\* data[43:51]
LtpBytes(data) == Slice(data, 43, 51)

parse_ltp_packet_TokenOnly(data) ==
    IF Len(data) < 27 THEN None
    ELSE IF ~Utf8Decodes(Slice(data, 2, 27)) THEN None
    ELSE IF Len(data) < 51 THEN [token |-> DecodeToken(Slice(data, 2, 27))]
    ELSE [token |-> DecodeToken(Slice(data, 2, 27)),
          ltp |-> Unpack_q(LtpBytes(data))]

\* nifty_option_chain.parse_ltp_packet; prices are held in hundredths, so the
\* quotient by 100 is the unpacked integer in that unit
parse_ltp_packet(data) ==
    IF Len(data) < 51 THEN None
    ELSE IF ~Utf8Decodes(Slice(data, 2, 27)) THEN None
    ELSE [token |-> DecodeToken(Slice(data, 2, 27)),
          ltp |-> Unpack_q(LtpBytes(data))]

\* angelone_test.parse_ltp_packet: the length test is against 50, a slice
\* of fewer than eight bytes makes struct.unpack raise
angelone_parse_ltp_packet(data) ==
    IF Len(data) < 50 THEN None
    ELSE IF ~Utf8Decodes(Slice(data, 2, 27)) THEN None
    ELSE IF Len(LtpBytes(data)) /= 8 THEN None
    ELSE [token |-> DecodeToken(Slice(data, 2, 27)),
          ltp |-> Unpack_q(LtpBytes(data))]

\* one 20-byte entry of the depth block
DepthEntry(data, i) ==
    LET offset == i * 20
    IN  [flag |-> Unpack_H(Slice(data, offset, offset + 2)),
         qty |-> Unpack_q(Slice(data, offset + 2, offset + 10)),
         price |-> Unpack_q(Slice(data, offset + 10, offset + 18))]

\* the loop of parse_best_5_data from entry i on
RECURSIVE Best5From(_, _, _)
Best5From(data, i, acc) ==
    IF i >= 10 \/ i * 20 + 20 > Len(data) THEN acc
    ELSE LET e == DepthEntry(data, i)
         IN  Best5From(data, i + 1,
                 IF e.flag = 0
                 THEN [acc EXCEPT !.bids = Append(@, e.price),
                                  !.bid_qty = Append(@, e.qty)]
                 ELSE [acc EXCEPT !.asks = Append(@, e.price),
                                  !.ask_qty = Append(@, e.qty)])

NoBest5 == [bids |-> <<>>, asks |-> <<>>, bid_qty |-> <<>>, ask_qty |-> <<>>]

\* parse_best_5_data, the same in data_server.py and nifty_option_chain.py
parse_best_5_data(data) == Best5From(data, 0, NoBest5)

\* parse_full_snapquote
parse_full_snapquote(data) ==
    IF Len(data) < 155 THEN None
    ELSE IF ~Utf8Decodes(Slice(data, 2, 27)) THEN None
    ELSE LET best_5 == IF Len(data) >= 347
                       THEN parse_best_5_data(Slice(data, 147, 347))
                       ELSE NoBest5
         IN  [token |-> DecodeToken(Slice(data, 2, 27)),
              ltp |-> Unpack_q(Slice(data, 43, 51)),
              ltq |-> Unpack_q(Slice(data, 51, 59)),
              atp |-> Unpack_q(Slice(data, 59, 67)),
              volume |-> Unpack_q(Slice(data, 67, 75)),
              total_buy_qty |-> Unpack_q(Slice(data, 75, 83)),
              total_sell_qty |-> Unpack_q(Slice(data, 83, 91)),
              open |-> Unpack_q(Slice(data, 91, 99)),
              high |-> Unpack_q(Slice(data, 99, 107)),
              low |-> Unpack_q(Slice(data, 107, 115)),
              close |-> Unpack_q(Slice(data, 115, 123)),
              oi |-> Unpack_q(Slice(data, 131, 139)),
              best_bids |-> best_5.bids,
              best_asks |-> best_5.asks,
              bid_qty |-> best_5.bid_qty,
              ask_qty |-> best_5.ask_qty]

\* nifty_option_chain.parse_snapquote_packet: the same statements
parse_snapquote_packet(data) == parse_full_snapquote(data)

----------------------------------------------------------------------------
(* Frames of the feed's binary layout, as inputs of the parsers *)

\* n < 2^24 as eight little-endian bytes
LE8(n) == [k \in 1..8 |-> IF k = 1 THEN n % 256
                          ELSE IF k = 2 THEN (n \div 256) % 256
                          ELSE IF k = 3 THEN (n \div 65536) % 256
                          ELSE 0]

Padded(text) == [k \in 1..25 |-> IF k <= Len(text) THEN text[k] ELSE 0]

\* token fields: "35001", "99926000", "43210", an empty field, "35001" behind
\* a NUL byte, and a field that is not UTF-8
TokenFields ==
    {Padded(<<51, 53, 48, 48, 49>>),
     Padded(<<57, 57, 57, 50, 54, 48, 48, 48>>),
     Padded(<<52, 51, 50, 49, 48>>),
     Padded(<<>>),
     Padded(<<0, 51, 53, 48, 48, 49>>),
     Padded(<<255, 53, 48, 48, 49>>)}

\* the eight bytes of 26100.50, 0, -0.01 and -1.00 in hundredths
LtpFields ==
    {<<130, 211, 39, 0, 0, 0, 0, 0>>,
     <<0, 0, 0, 0, 0, 0, 0, 0>>,
     <<255, 255, 255, 255, 255, 255, 255, 255>>,
     <<156, 255, 255, 255, 255, 255, 255, 255>>}

\* the flags of the ten depth entries: five bids then five asks, five asks
\* then five bids, alternating, and ten entries of flag 0
FlagPatterns ==
    {<<0, 0, 0, 0, 0, 1, 1, 1, 1, 1>>,
     <<1, 1, 1, 1, 1, 0, 0, 0, 0, 0>>,
     <<0, 1, 0, 1, 0, 1, 0, 1, 0, 1>>,
     <<0, 0, 0, 0, 0, 0, 0, 0, 0, 0>>}

FrameLengths == {40, 50, 51, 154, 155, 346, 347, 379}

\* the quote fields after the LTP: ltq, atp, volume, total buy and sell
\* quantity, open, high, low, close, a timestamp, oi, oi change
QuoteFields ==
    LE8(75) \o LE8(2610000) \o LE8(1000) \o LE8(500) \o LE8(400)
        \o LE8(2609000) \o LE8(2611000) \o LE8(2608000) \o LE8(2605000)
        \o LE8(0) \o LE8(90000) \o LE8(0)

\* depth entry i: flag, quantity, price, number of orders
DepthBytes(i, flag) ==
    <<flag, 0>> \o LE8(1000 * (i + 1)) \o LE8(2610000 + 100 * i) \o <<1, 0>>

RECURSIVE DepthBlock(_, _)
DepthBlock(flags, i) ==
    IF i >= 10 THEN <<>> ELSE DepthBytes(i, flags[i + 1]) \o DepthBlock(flags, i + 1)

FullFrame(token_field, ltp_field, flags) ==
    <<3, 2>> \o token_field \o [k \in 1..16 |-> 0] \o ltp_field \o QuoteFields
        \o DepthBlock(flags, 0) \o [k \in 1..32 |-> 0]

Frames ==
    {SubSeq(FullFrame(t, l, f), 1, n) :
        t \in TokenFields, l \in LtpFields, f \in FlagPatterns, n \in FrameLengths}

----------------------------------------------------------------------------
(* data_server.py: the shared store, its writer and the HTTP API *)

NIFTY_TOKEN == "99926000"
FuturesToken == "35001"
OptionToken == "43210"
OtherOptionToken == "43211"

\* token_to_info, filled by load_option_tokens_for_server before the feed starts
token_to_info ==
    [t \in {OptionToken, OtherOptionToken} |->
        IF t = OptionToken
        THEN [type |-> "CE", strike |-> 26000, symbol |-> "NIFTY26000CE"]
        ELSE [type |-> "PE", strike |-> 26000, symbol |-> "NIFTY26000PE"]]

\* data_store as run_data_server leaves it when it starts the feed thread
InitialStore ==
    [spot |-> [token |-> NIFTY_TOKEN, ltp |-> 2600000, close |-> 0, open |-> 0,
               high |-> 0, low |-> 0, last_update |-> <<>>],
     futures |-> [token |-> FuturesToken, symbol |-> "NIFTY FUT", ltp |-> 0, close |-> 0,
                  open |-> 0, high |-> 0, low |-> 0, oi |-> 0, volume |-> 0,
                  last_update |-> <<>>],
     options |-> EmptyMap,
     depth |-> [best_bids |-> <<>>, best_asks |-> <<>>, bid_qty |-> <<>>, ask_qty |-> <<>>],
     status |-> [connected |-> FALSE, last_tick |-> <<>>, tick_count |-> 0,
                 subscribed_tokens |-> 0],
     expiry |-> "27NOV2026"]

\* data_store[section][key] = parsed[key] if parsed.get(key, 0) > 0
WriteIfPositive(section, parsed, key) ==
    IF DictGet(parsed, key, 0) > 0 THEN << <<"set", section, key, parsed[key]>> >> ELSE <<>>

\* the store writes of update_data_store(parsed), in program order
StoreWrites(parsed, ds, timestamp) ==
    LET token == DictGet(parsed, "token", "")
        status == << <<"set", "status", "tick_count", ds.status.tick_count + 1>>,
                     <<"set", "status", "last_tick", timestamp>> >>
        spot == << <<"set", "spot", "ltp", DictGet(parsed, "ltp", 0)>> >>
                \o WriteIfPositive("spot", parsed, "close")
                \o WriteIfPositive("spot", parsed, "open")
                \o WriteIfPositive("spot", parsed, "high")
                \o WriteIfPositive("spot", parsed, "low")
                \o << <<"set", "spot", "last_update", timestamp>> >>
        futures == << <<"set", "futures", "ltp", DictGet(parsed, "ltp", 0)>>,
                      <<"set", "futures", "ltq", DictGet(parsed, "ltq", 0)>>,
                      <<"set", "futures", "total_buy_qty", DictGet(parsed, "total_buy_qty", 0)>>,
                      <<"set", "futures", "total_sell_qty", DictGet(parsed, "total_sell_qty", 0)>> >>
                   \o WriteIfPositive("futures", parsed, "close")
                   \o WriteIfPositive("futures", parsed, "open")
                   \o WriteIfPositive("futures", parsed, "high")
                   \o WriteIfPositive("futures", parsed, "low")
                   \o WriteIfPositive("futures", parsed, "oi")
                   \o WriteIfPositive("futures", parsed, "volume")
                   \o << <<"set", "futures", "last_update", timestamp>> >>
                   \o (IF DictGet(parsed, "best_bids", <<>>) /= <<>>
                       THEN << <<"set", "depth", "best_bids", parsed["best_bids"]>>,
                               <<"set", "depth", "best_asks", parsed["best_asks"]>>,
                               <<"set", "depth", "bid_qty", parsed["bid_qty"]>>,
                               <<"set", "depth", "ask_qty", parsed["ask_qty"]>> >>
                       ELSE <<>>)
        option == (IF token \notin DOMAIN ds.options
                   THEN << <<"option", token, EmptyMap, "create">> >> ELSE <<>>)
                  \o << <<"option", token,
                          [ltp |-> DictGet(parsed, "ltp", 0),
                           ltq |-> DictGet(parsed, "ltq", 0),
                           open |-> DictGet(parsed, "open", 0),
                           high |-> DictGet(parsed, "high", 0),
                           low |-> DictGet(parsed, "low", 0),
                           close |-> DictGet(parsed, "close", 0),
                           oi |-> DictGet(parsed, "oi", 0),
                           volume |-> DictGet(parsed, "volume", 0),
                           last_update |-> timestamp], "update">> >>
                  \o (IF token \in DOMAIN token_to_info
                      THEN << <<"option", token, token_to_info[token], "update">> >>
                      ELSE <<>>)
    IN  status \o (IF token = NIFTY_TOKEN THEN spot
                   ELSE IF token = ds.futures.token THEN futures
                   ELSE option)

ApplyWrite_OptionsReplaced(ds, w) ==
    IF w[1] = "set"
    THEN [ds EXCEPT ![w[2]] = DictSet(@, w[3], w[4])]
    ELSE IF w[4] = "create"
         THEN [ds EXCEPT !.options = DictSet(EmptyMap, w[2], EmptyMap)]
         ELSE [ds EXCEPT !.options = DictSet(@, w[2], DictUpdate(ds.options[w[2]], w[3]))]

\* one store write: a subscript assignment, or a dict.update of an option
ApplyWrite(ds, w) ==
    IF w[1] = "set"
    THEN [ds EXCEPT ![w[2]] = DictSet(@, w[3], w[4])]
    ELSE IF w[4] = "create"
         THEN [ds EXCEPT !.options = DictSet(@, w[2], EmptyMap)]
         ELSE [ds EXCEPT !.options = DictSet(@, w[2], DictUpdate(ds.options[w[2]], w[3]))]

RECURSIVE ApplyWrites(_, _)
ApplyWrites(ds, todo) ==
    IF todo = <<>> THEN ds ELSE ApplyWrites(ApplyWrite(ds, Head(todo)), Tail(todo))

ParsedFrame_LtpFirst(frame) ==
    IF parse_ltp_packet(frame) /= None THEN parse_ltp_packet(frame)
    ELSE IF parse_full_snapquote(frame) /= None THEN parse_full_snapquote(frame)
    ELSE parse_snapquote_packet(frame)

\* what on_message holds in parsed after its three attempts on a frame
ParsedFrame(frame) ==
    IF parse_full_snapquote(frame) /= None THEN parse_full_snapquote(frame)
    ELSE IF parse_snapquote_packet(frame) /= None THEN parse_snapquote_packet(frame)
    ELSE parse_ltp_packet(frame)

\* on_message with a frame that decodes to parsed: update_data_store starts
on_message(parsed) ==
    /\ w_todo = <<>>
    /\ store_before' = data_store
    /\ w_todo' = StoreWrites(parsed, data_store, <<data_store.status.tick_count + 1>>)
    /\ UNCHANGED <<data_store, resp, t_pc, futures_data, instants>>

on_message_frame_Counted(frame) ==
    /\ w_todo = <<>>
    /\ message' = frame
    /\ \E parsed \in {ParsedFrame(frame)} :
           /\ decoded' = [op |-> "on_message", result |-> parsed]
           /\ IF parsed /= None
              THEN on_message(parsed)
              ELSE /\ data_store' = [data_store EXCEPT !.status.tick_count = @ + 1]
                   /\ UNCHANGED <<w_todo, store_before, resp, t_pc, futures_data, instants>>

\* on_message(ws, message) of start_angel_websocket
on_message_frame(frame) ==
    /\ w_todo = <<>>
    /\ message' = frame
    /\ \E parsed \in {ParsedFrame(frame)} :
           /\ decoded' = [op |-> "on_message", result |-> parsed]
           /\ IF parsed /= None
              THEN on_message(parsed)
              ELSE UNCHANGED storeVars

\* the feed thread runs the next statement of update_data_store
update_data_store_step ==
    /\ w_todo /= <<>>
    /\ data_store' = ApplyWrite(data_store, Head(w_todo))
    /\ w_todo' = Tail(w_todo)
    /\ instants' = IF w_todo' = <<>> THEN instants \cup {data_store'} ELSE instants
    /\ UNCHANGED <<store_before, resp, t_pc, futures_data>>

\* the body a handler of the HTTP API serializes from the store ds
HandlerBody(endpoint, ds) ==
    CASE endpoint = "/health" ->
             [status |-> "ok", connected |-> ds.status.connected,
              tick_count |-> ds.status.tick_count, last_tick |-> ds.status.last_tick]
      [] endpoint = "/spot" -> ds.spot
      [] endpoint = "/futures" -> ds.futures
      [] endpoint = "/options" -> ds.options
      [] endpoint = "/option/" \o OptionToken -> DictGet(ds.options, OptionToken, EmptyMap)
      [] endpoint = "/depth" -> ds.depth
      [] endpoint = "/all" -> ds
      [] endpoint = "/status" -> ds.status

http_get_Counted(endpoint) ==
    /\ resp' = [endpoint |-> endpoint, body |-> HandlerBody(endpoint, data_store)]
    /\ data_store' = [data_store EXCEPT !.status.subscribed_tokens = @ + 1]
    /\ UNCHANGED <<w_todo, store_before, t_pc, futures_data, instants>>

\* a Flask worker thread serves one request
http_get(endpoint) ==
    /\ resp' = [endpoint |-> endpoint, body |-> HandlerBody(endpoint, data_store)]
    /\ UNCHANGED <<data_store, w_todo, store_before, t_pc, futures_data, instants>>

\* the reads of get_tick after futures_data = data_store['futures'].copy():
\* futures_data[key] = data_store[section].get(key, default), in program order
TickReads ==
    << <<"depth", "best_bids", <<>> >>, <<"depth", "best_asks", <<>> >>,
       <<"depth", "bid_qty", <<>> >>, <<"depth", "ask_qty", <<>> >>,
       <<"futures", "ltq", 0>>, <<"futures", "total_buy_qty", 0>>,
       <<"futures", "total_sell_qty", 0>> >>

\* futures_data after the reads rd, all made on the store ds
RECURSIVE TickMerge(_, _, _)
TickMerge(fd, ds, rd) ==
    IF rd = <<>> THEN fd
    ELSE TickMerge(DictSet(fd, Head(rd)[2], DictGet(ds[Head(rd)[1]], Head(rd)[2], Head(rd)[3])),
                   ds, Tail(rd))

\* get_tick, first statement: a /tick request copies the futures snapshot
get_tick_begin ==
    /\ t_pc = 0
    /\ futures_data' = data_store.futures
    /\ t_pc' = 1
    /\ UNCHANGED <<data_store, w_todo, store_before, resp, instants>>

\* get_tick, next statement: one read of the store into futures_data, or
\* the return of jsonify(futures_data)
get_tick_step ==
    /\ t_pc > 0
    /\ IF t_pc <= Len(TickReads)
       THEN /\ futures_data' = TickMerge(futures_data, data_store, <<TickReads[t_pc]>>)
            /\ t_pc' = t_pc + 1
            /\ UNCHANGED resp
       ELSE /\ resp' = [endpoint |-> "/tick", body |-> futures_data]
            /\ t_pc' = 0
            /\ futures_data' = EmptyMap
    /\ UNCHANGED <<data_store, w_todo, store_before, instants>>

InitStore ==
    /\ data_store = InitialStore
    /\ w_todo = <<>>
    /\ store_before = InitialStore
    /\ resp = [endpoint |-> "none", body |-> EmptyMap]
    /\ t_pc = 0
    /\ futures_data = EmptyMap
    /\ instants = {InitialStore}

----------------------------------------------------------------------------
(* The engine called freely, as a library: any process_tick and reset_engine *)

InitEngine ==
    /\ cvd = 0
    /\ total_buy_volume = 0
    /\ total_sell_volume = 0
    /\ candle_data = EmptyMap
    /\ current_minute = NoMinute
    /\ footprint_data = EmptyMap
    /\ delta_candle_writer = "None"
    /\ candle_log = <<>>
    /\ ticks = <<>>
    /\ run_pc = "start"

InitClassifier ==
    /\ last_direction = "BUY"
    /\ cls_call = [ltp |-> 0, best_bids |-> <<>>, best_asks |-> <<>>,
                   prev_ltp |-> 0, last_direction |-> "BUY"]
    /\ cls_result = "BUY"

\* a dedup deque one key short of full: 99 big-block keys of earlier prices
WarmAlerts == [i \in 1..(RecentAlertsMaxLen - 1) |-> BigBlockKey("BUY", 100 * i)]

\* nine (price, CVD) points of a flat market
WarmPrices == [i \in 1..9 |-> 2600000]
WarmCvds == [i \in 1..9 |-> 6000]

\* the analyzer as loaded
InitAnalyzer ==
    /\ recent_alerts = <<>>
    /\ price_history = <<>>
    /\ cvd_history = <<>>
    /\ det_call = [op |-> "none"]
    /\ det_result = NoAlert
    /\ n_divergence_calls = 0

\* the analyzer as loaded, or after a session that left it warm
InitAnalyzerAnyAge ==
    /\ \/ recent_alerts = <<>> /\ price_history = <<>> /\ cvd_history = <<>>
       \/ recent_alerts = WarmAlerts /\ price_history = WarmPrices /\ cvd_history = WarmCvds
    /\ det_call = [op |-> "none"]
    /\ det_result = NoAlert
    /\ n_divergence_calls = 0

\* the feed thread as run_data_server starts it, about to call run_forever
InitConn ==
    /\ conn_pc = "connecting"
    /\ link = "down"
    /\ failures = 0
    /\ n_opens = 0
    /\ sent = <<>>

\* no frame received yet
InitParser ==
    /\ message = <<>>
    /\ decoded = [op |-> "none"]

\* nothing written yet, no pass of the polling loop made
InitLogs ==
    /\ alerts_log = <<>>
    /\ order_flow_log = <<>>
    /\ cycle = [n |-> 0, response |-> [kind |-> "none"], fetch |-> "none",
                error |-> "none"]
    /\ cls_kept = [op |-> "none"]

\* the dashboard module as loaded, before run_dashboard starts its threads
NoDepth == [bids |-> <<>>, asks |-> <<>>, bid_qty |-> <<>>, ask_qty |-> <<>>]

InitDash ==
    /\ poll = [pc |-> "not_started", last_ltp |-> 0, last_ltq |-> 0,
               parsed_data |-> EmptyMap, direction |-> "", timestamp |-> <<0, 0, 0>>]
    /\ dashboard = [prev_ltp |-> 0, tick_count |-> 0,
                    cvd_history |-> <<>>, time_history |-> <<>>, price_history |-> <<>>,
                    alert_history |-> <<>>, current_depth |-> NoDepth]
    /\ fetched = <<>>
    /\ chart = [footprint |-> <<>>, cvd_values |-> <<>>, candles |-> EmptyMap,
                depth |-> NoDepth, alerts |-> <<>>, during |-> "none"]

Init == InitEngine /\ InitClassifier /\ InitAnalyzer /\ InitStore /\ InitConn /\ InitDash /\ InitParser
        /\ InitLogs

Tick ==
    /\ Len(ticks) < MaxTicks
    /\ \E d \in Directions, q \in Quantities, p \in Prices, ts \in Timestamps :
           process_tick(d, q, p, ts)
    /\ UNCHANGED <<run_pc, classifierVars, analyzerVars, storeVars, connVars, parserVars, logVars, dashVars>>

Reset ==
    /\ ticks /= <<>>
    /\ reset_engine
    /\ UNCHANGED <<run_pc, classifierVars, analyzerVars, storeVars, connVars, parserVars, logVars, dashVars>>

Next == Tick \/ Reset

Spec == Init /\ [][Next]_vars

----------------------------------------------------------------------------
(* reset_engine on an engine that has been used: a session of two ticks in
   two minutes, then resets and further ticks *)

UsedTicks ==
    <<[direction |-> "BUY", quantity |-> 225, price |-> 2610100, minute |-> <<9, 14>>],
      [direction |-> "SELL", quantity |-> 75, price |-> 2609900, minute |-> <<9, 15>>]>>

InitUsedEngine ==
    /\ \E e \in {EngineAfterTicks(FreshEngine, UsedTicks)} :
           /\ cvd = e.cvd
           /\ total_buy_volume = e.total_buy_volume
           /\ total_sell_volume = e.total_sell_volume
           /\ candle_data = e.candle_data
           /\ current_minute = e.current_minute
           /\ footprint_data = e.footprint_data
    /\ delta_candle_writer = "None"
    /\ candle_log = <<>>
    /\ ticks = UsedTicks
    /\ run_pc = "start"

ResetQuantities == {75, 150}
ResetPrices == {2609900, 2610050}
ResetTimestamps == {<<9, 15, 2>>, <<9, 16, 1>>}

TickOfSession ==
    /\ Len(ticks) < MaxTicks
    /\ \E d \in Directions, q \in ResetQuantities, p \in ResetPrices, ts \in ResetTimestamps :
           process_tick(d, q, p, ts)
    /\ UNCHANGED <<run_pc, classifierVars, analyzerVars, storeVars, connVars, parserVars, logVars, dashVars>>

ResetNext == TickOfSession \/ Reset

ResetInit ==
    InitUsedEngine /\ InitClassifier /\ InitAnalyzer /\ InitStore /\ InitConn /\ InitDash /\ InitParser
        /\ InitLogs

ResetSpec == ResetInit /\ [][ResetNext]_vars

----------------------------------------------------------------------------
(* run_dashboard: init_delta_files, reset_engine, the ticks of the polling *)
(* thread, and close_delta_files at shutdown                               *)

RunInitFiles ==
    /\ run_pc = "start"
    /\ init_delta_files
    /\ run_pc' = "files"
    /\ UNCHANGED <<classifierVars, analyzerVars, storeVars, connVars, parserVars, logVars, dashVars>>

RunReset ==
    /\ run_pc = "files"
    /\ reset_engine
    /\ run_pc' = "running"
    /\ UNCHANGED <<classifierVars, analyzerVars, storeVars, connVars, parserVars, logVars, dashVars>>

RunTick ==
    /\ run_pc = "running"
    /\ Len(ticks) < MaxTicks
    /\ \E d \in Directions, q \in Quantities, p \in Prices, ts \in Timestamps :
           process_tick(d, q, p, ts)
    /\ UNCHANGED <<run_pc, classifierVars, analyzerVars, storeVars, connVars, parserVars, logVars, dashVars>>

RunClose ==
    /\ run_pc = "running"
    /\ close_delta_files
    /\ run_pc' = "done"
    /\ UNCHANGED <<classifierVars, analyzerVars, storeVars, connVars, parserVars, logVars, dashVars>>

RunNext == RunInitFiles \/ RunReset \/ RunTick \/ RunClose

RunSpec == Init /\ [][RunNext]_vars

----------------------------------------------------------------------------
(* The engine's calls in any order, with the candle log initialised first:  *)
(* process_tick, reset_engine and close_delta_files                         *)

MaxLogRows == 2

SessionInitFiles ==
    /\ run_pc = "start"
    /\ init_delta_files
    /\ run_pc' = "running"
    /\ UNCHANGED <<classifierVars, analyzerVars, storeVars, connVars, parserVars, logVars, dashVars>>

SessionTick ==
    /\ run_pc = "running"
    /\ Len(ticks) < MaxTicks
    /\ \E d \in Directions, p \in ResetPrices, ts \in ResetTimestamps :
           process_tick(d, 75, p, ts)
    /\ UNCHANGED <<run_pc, classifierVars, analyzerVars, storeVars, connVars, parserVars, logVars, dashVars>>

\* reset_engine at any point of the session
SessionReset ==
    /\ run_pc = "running"
    /\ ticks /= <<>>
    /\ Len(candle_log) < MaxLogRows
    /\ reset_engine
    /\ UNCHANGED <<run_pc, classifierVars, analyzerVars, storeVars, connVars, parserVars, logVars, dashVars>>

SessionClose ==
    /\ run_pc = "running"
    /\ close_delta_files
    /\ run_pc' = "done"
    /\ UNCHANGED <<classifierVars, analyzerVars, storeVars, connVars, parserVars, logVars, dashVars>>

SessionNext == SessionInitFiles \/ SessionTick \/ SessionReset \/ SessionClose

SessionSpec == Init /\ [][SessionNext]_vars

----------------------------------------------------------------------------
(* The classifier called with any tick *)

LastPrices == {10000, 10100, 10200}
PrevPrices == {0, 10000, 10100, 10200}
BidLadders == {<<>>, <<0>>, <<10000, 9900>>}
AskLadders == {<<>>, <<0>>, <<10200, 10300>>}

\* any call; the call is kept for later comparison, or the one kept stays
Classify ==
    /\ \E ltp \in LastPrices, bids \in BidLadders, asks \in AskLadders, prev \in PrevPrices :
           classify_trade_direction(ltp, bids, asks, prev)
    /\ \/ cls_kept' = [op |-> "classify_trade_direction", call |-> cls_call',
                       result |-> cls_result', earlier |-> FALSE]
       \/ /\ cls_kept.op /= "none"
          /\ cls_kept' = [cls_kept EXCEPT !.earlier = TRUE]
    /\ UNCHANGED <<alerts_log, order_flow_log, cycle>>
    /\ UNCHANGED <<engineVars, analyzerVars, storeVars, connVars, parserVars, dashVars>>

ClassifyNext == Classify

ClassifySpec == Init /\ [][ClassifyNext]_vars

----------------------------------------------------------------------------
(* The detectors called in any order *)

MaxDivergenceCalls == 1

BlockQuantities == {3749, 3750, 4000, 7499, 7500, 8000}
BlockPrices == {2610040, 2610050, 2610150}
DivergencePoints == {<<2610000, 0>>, <<2590000, 12000>>}

DetectBigBlock ==
    /\ \E q \in BlockQuantities, d \in Directions, p \in BlockPrices :
           detect_big_block(q, d, p)
    /\ UNCHANGED <<engineVars, classifierVars, storeVars, connVars, parserVars, logVars, dashVars>>

DetectCvdDivergence ==
    /\ n_divergence_calls < MaxDivergenceCalls
    /\ \E pt \in DivergencePoints : detect_cvd_divergence(pt[1], pt[2])
    /\ UNCHANGED <<engineVars, classifierVars, storeVars, connVars, parserVars, logVars, dashVars>>

ResetAnalyzer ==
    /\ reset_analyzer
    /\ UNCHANGED <<engineVars, classifierVars, storeVars, connVars, parserVars, logVars, dashVars>>

AnalyzerNext == DetectBigBlock \/ DetectCvdDivergence \/ ResetAnalyzer

AnalyzerInit ==
    InitEngine /\ InitClassifier /\ InitAnalyzerAnyAge /\ InitStore /\ InitConn /\ InitDash /\ InitParser
        /\ InitLogs

AnalyzerSpec == AnalyzerInit /\ [][AnalyzerNext]_vars

----------------------------------------------------------------------------
(* The divergence detector over a longer session: several
   detect_cvd_divergence calls, big blocks that push keys through the dedup
   deque, and reset_analyzer *)

MaxWindowCalls == 3

\* 19 (price, CVD) points: five of a low market with a high CVD, then
\* fourteen of a higher market with the CVD at 0. The tenth of them made
\* detect_cvd_divergence return the BEARISH alert
RisenPrices == [i \in 1..19 |-> IF i <= 5 THEN 2600000 ELSE 2610000]
RisenCvds == [i \in 1..19 |-> IF i <= 5 THEN 12000 ELSE 0]

\* the dedup deque after that alert and 99 big blocks at other prices: full,
\* with the divergence key as its oldest entry
AgedAlerts == <<"DIVERGENCE_BEARISH">> \o WarmAlerts

\* the analyzer nine calls into a flat market, or nineteen calls into a
\* market that rose while the CVD fell
InitAnalyzerMidSession ==
    /\ \/ recent_alerts = <<>> /\ price_history = WarmPrices /\ cvd_history = WarmCvds
       \/ recent_alerts = AgedAlerts /\ price_history = RisenPrices /\ cvd_history = RisenCvds
    /\ det_call = [op |-> "none"]
    /\ det_result = NoAlert
    /\ n_divergence_calls = 0

WindowBlockPrices == {2610050, 2610150}

DivergenceCall ==
    /\ n_divergence_calls < MaxWindowCalls
    /\ \E pt \in DivergencePoints : detect_cvd_divergence(pt[1], pt[2])
    /\ UNCHANGED <<engineVars, classifierVars, storeVars, connVars, parserVars, logVars, dashVars>>

BlockBetweenCalls ==
    /\ \E p \in WindowBlockPrices : detect_big_block(4000, "BUY", p)
    /\ UNCHANGED <<engineVars, classifierVars, storeVars, connVars, parserVars, logVars, dashVars>>

DivergenceNext == DivergenceCall \/ BlockBetweenCalls \/ ResetAnalyzer

DivergenceInit ==
    InitEngine /\ InitClassifier /\ InitAnalyzerMidSession /\ InitStore /\ InitConn /\ InitDash /\ InitParser
        /\ InitLogs

DivergenceSpec == DivergenceInit /\ [][DivergenceNext]_vars

----------------------------------------------------------------------------
(* The detectors that keep no state, called with any arguments *)

ImbalanceVolumes == {0, 5000, 6000, 15000}

QuantityLadders ==
    {<<>>, <<6000, 7000, 5500, 6200, 4000>>, <<1000, 1200, 800, 900, 1100>>,
     <<5000, 4999, 5000, 4999, 5000>>, <<5000, 4999, 5000, 4999, 4999>>}
BidPriceLadders == {<<>>, <<2610000, 2609900, 2609800, 2609700, 2609600>>}
AskPriceLadders == {<<>>, <<2610100, 2610200, 2610300, 2610400, 2610500>>}

\* entries of get_footprint_for_display: a level at the current price, at
\* five points above it and at six points above it
LevelPrices == {26100, 26105, 26106}
LevelVolumes == {<<4000, 6000>>, <<4000, 6001>>, <<6001, 4000>>, <<4000, 5999>>, <<5000, 5000>>}
FootprintItems ==
    {[price |-> p, buy_vol |-> v[1], sell_vol |-> v[2], delta |-> v[1] - v[2],
      total |-> v[1] + v[2]] : p \in LevelPrices, v \in LevelVolumes}
FootprintLists ==
    {<<>>} \cup {<<a>> : a \in FootprintItems}
           \cup {<<a, b>> : a \in FootprintItems, b \in FootprintItems}
AbsorptionPrices == {2610000, 2610050}

DetectImbalance ==
    /\ \E b \in ImbalanceVolumes, sv \in ImbalanceVolumes, p \in BlockPrices :
           detect_imbalance(b, sv, p)
    /\ UNCHANGED <<engineVars, classifierVars, storeVars, connVars, parserVars, logVars, dashVars>>

DetectStackedOrders ==
    /\ \E bp \in BidPriceLadders, bq \in QuantityLadders,
          ap \in AskPriceLadders, aq \in QuantityLadders :
           detect_stacked_orders(bp, bq, ap, aq)
    /\ UNCHANGED <<engineVars, classifierVars, storeVars, connVars, parserVars, logVars, dashVars>>

DetectAbsorption ==
    /\ \E levels \in FootprintLists, p \in AbsorptionPrices : detect_absorption(levels, p)
    /\ UNCHANGED <<engineVars, classifierVars, storeVars, connVars, parserVars, logVars, dashVars>>

\* one big block, so that the dedup deque is not always empty
DetectOneBigBlock ==
    /\ detect_big_block(4000, "BUY", 2610050)
    /\ UNCHANGED <<engineVars, classifierVars, storeVars, connVars, parserVars, logVars, dashVars>>

DetectorNext == DetectImbalance \/ DetectStackedOrders \/ DetectAbsorption \/ DetectOneBigBlock

DetectorSpec == Init /\ [][DetectorNext]_vars

----------------------------------------------------------------------------
(* The feed thread and the HTTP API threads of the data server *)

MaxFrames == 2

\* what parse_full_snapquote returns for a futures frame with its depth block,
\* for a futures frame without it and for an option frame, and what
\* parse_ltp_packet returns for an index frame
ParsedTicks ==
    { [token |-> FuturesToken, ltp |-> 2610050, ltq |-> 75, atp |-> 2610000,
       volume |-> 1000, total_buy_qty |-> 500, total_sell_qty |-> 400,
       open |-> 2609000, high |-> 2611000, low |-> 2608000, close |-> 0, oi |-> 90000,
       best_bids |-> <<2610000>>, best_asks |-> <<2610100>>,
       bid_qty |-> <<150>>, ask_qty |-> <<225>>],
      [token |-> FuturesToken, ltp |-> 2610100, ltq |-> 150, atp |-> 2610050,
       volume |-> 1150, total_buy_qty |-> 600, total_sell_qty |-> 450,
       open |-> 2609000, high |-> 2611000, low |-> 2608000, close |-> 0, oi |-> 90000,
       best_bids |-> <<>>, best_asks |-> <<>>, bid_qty |-> <<>>, ask_qty |-> <<>>],
      [token |-> OptionToken, ltp |-> 12050, ltq |-> 75, atp |-> 12000,
       volume |-> 300, total_buy_qty |-> 50, total_sell_qty |-> 40,
       open |-> 11000, high |-> 12500, low |-> 10500, close |-> 11500, oi |-> 7500,
       best_bids |-> <<>>, best_asks |-> <<>>, bid_qty |-> <<>>, ask_qty |-> <<>>],
      [token |-> NIFTY_TOKEN, ltp |-> 2600550] }

Endpoints ==
    {"/health", "/spot", "/futures", "/options", "/option/" \o OptionToken,
     "/depth", "/all", "/status"}

OnMessage ==
    /\ data_store.status.tick_count < MaxFrames
    /\ \E parsed \in ParsedTicks : on_message(parsed)
    /\ UNCHANGED <<engineVars, classifierVars, analyzerVars, connVars, parserVars, logVars, dashVars>>

UpdateDataStoreStep ==
    /\ update_data_store_step
    /\ UNCHANGED <<engineVars, classifierVars, analyzerVars, connVars, parserVars, logVars, dashVars>>

HttpGet ==
    /\ \E endpoint \in Endpoints : http_get(endpoint)
    /\ UNCHANGED <<engineVars, classifierVars, analyzerVars, connVars, parserVars, logVars, dashVars>>

GetTickBegin ==
    /\ get_tick_begin
    /\ UNCHANGED <<engineVars, classifierVars, analyzerVars, connVars, parserVars, logVars, dashVars>>

GetTickStep ==
    /\ get_tick_step
    /\ UNCHANGED <<engineVars, classifierVars, analyzerVars, connVars, parserVars, logVars, dashVars>>

StoreNext == OnMessage \/ UpdateDataStoreStep \/ HttpGet

StoreSpec == Init /\ [][StoreNext]_vars

\* the feed thread and the HTTP threads serving /tick
TickNext == OnMessage \/ UpdateDataStoreStep \/ GetTickBegin \/ GetTickStep

TickSpec == Init /\ [][TickNext]_vars

\* the feed thread and HTTP threads serving every endpoint
MaxApiFrames == 1

\* a futures frame with its depth block, and an index frame
ApiTicks == {parsed \in ParsedTicks : DictGet(parsed, "best_bids", <<0>>) /= <<>>}

ApiOnMessage ==
    /\ data_store.status.tick_count < MaxApiFrames
    /\ \E parsed \in ApiTicks : on_message(parsed)
    /\ UNCHANGED <<engineVars, classifierVars, analyzerVars, connVars, parserVars, logVars, dashVars>>

ApiNext == ApiOnMessage \/ UpdateDataStoreStep \/ HttpGet \/ GetTickBegin \/ GetTickStep

ApiSpec == Init /\ [][ApiNext]_vars

\* the feed thread alone, receiving binary frames
FeedFrames ==
    {SubSeq(FullFrame(t, l, f), 1, n) :
        t \in {Padded(<<51, 53, 48, 48, 49>>),
               Padded(<<57, 57, 57, 50, 54, 48, 48, 48>>),
               Padded(<<52, 51, 50, 49, 48>>),
               Padded(<<255, 53, 48, 48, 49>>)},
        l \in {<<130, 211, 39, 0, 0, 0, 0, 0>>},
        f \in {<<0, 1, 0, 1, 0, 1, 0, 1, 0, 1>>},
        n \in {50, 51, 154, 155, 347}}

OnFrame ==
    /\ data_store.status.tick_count < MaxFrames
    /\ \E frame \in FeedFrames : on_message_frame(frame)
    /\ UNCHANGED <<engineVars, classifierVars, analyzerVars, connVars, dashVars, logVars>>

FeedNext == OnFrame \/ UpdateDataStoreStep

FeedSpec == Init /\ [][FeedNext]_vars

----------------------------------------------------------------------------
(* start_angel_websocket: the connection callbacks and the reconnect loop.  *)
(* WebSocketApp.run_forever connects, calls on_open, then on_message per    *)
(* frame; on an error it calls on_error and then on_close, on a clean close *)
(* on_close, and returns.  All callbacks run on the feed thread.            *)

MaxFailures == 2
MaxOpens == 2

\* the tokens run_data_server subscribes to
ws_tokens == <<NIFTY_TOKEN, FuturesToken, OptionToken, OtherOptionToken>>

\* on_open: every tracked token but the index one
nfo_tokens(tokens) == SelectSeq(tokens, LAMBDA t : t /= NIFTY_TOKEN)

subscribe_nfo_AllTokens(tokens) ==
    [correlationID |-> "data_server_nfo", action |-> 1,
     params |-> [mode |-> 3, tokenList |-> <<[exchangeType |-> 2, tokens |-> tokens]>>]]

\* on_open: the SnapQuote (mode 3) request for the NFO tokens
subscribe_nfo(tokens) ==
    [correlationID |-> "data_server_nfo", action |-> 1,
     params |-> [mode |-> 3, tokenList |-> <<[exchangeType |-> 2, tokens |-> nfo_tokens(tokens)]>>]]

\* on_open: the LTP (mode 1) request for the index
subscribe_spot ==
    [correlationID |-> "data_server_spot", action |-> 1,
     params |-> [mode |-> 1, tokenList |-> <<[exchangeType |-> 1, tokens |-> <<NIFTY_TOKEN>>]>>]]

\* on_open: the ws.send calls, the first one under `if nfo_tokens:`
on_open_sends(tokens) ==
    (IF nfo_tokens(tokens) /= <<>> THEN <<subscribe_nfo(tokens)>> ELSE <<>>) \o <<subscribe_spot>>

\* on_open, first statement
on_open(ds) == [ds EXCEPT !.status.connected = TRUE]

\* on_open, last statement, after the subscribe messages are sent
on_open_subscribed(ds) == [ds EXCEPT !.status.subscribed_tokens = Len(ws_tokens)]

on_error(ds) == [ds EXCEPT !.status.connected = FALSE]

on_close_FlagKept(ds) == ds

on_close(ds) == [ds EXCEPT !.status.connected = FALSE]

\* where the loop goes when time.sleep(5) returns: `while True` has no exit
AfterSleep_GivesUp(f) == IF f >= MaxFailures THEN "stopped" ELSE "connecting"

AfterSleep(f) == "connecting"

\* run_forever connected: on_open starts
Connected ==
    /\ conn_pc = "connecting"
    /\ link' = "up"
    /\ data_store' = on_open(data_store)
    /\ conn_pc' = "subscribing"
    /\ sent' = <<>>
    /\ failures' = 0
    /\ n_opens' = Min(n_opens + 1, MaxOpens)
    /\ UNCHANGED <<w_todo, store_before, resp, t_pc, futures_data, instants>>
    /\ UNCHANGED <<engineVars, classifierVars, analyzerVars, dashVars, parserVars, logVars>>

\* on_open sent its subscriptions and returns
Subscribed ==
    /\ conn_pc = "subscribing"
    /\ data_store' = on_open_subscribed(data_store)
    /\ conn_pc' = "open"
    /\ sent' = on_open_sends(ws_tokens)
    /\ UNCHANGED <<w_todo, store_before, resp, t_pc, futures_data, instants>>
    /\ UNCHANGED <<link, failures, n_opens>>
    /\ UNCHANGED <<engineVars, classifierVars, analyzerVars, dashVars, parserVars, logVars>>

\* the connection fails (while connecting, in ws.send of on_open, or while
\* open and no callback is running): run_forever calls on_error
ConnError ==
    /\ conn_pc \in {"connecting", "subscribing", "open"}
    /\ w_todo = <<>>
    /\ link' = "down"
    /\ data_store' = on_error(data_store)
    /\ failures' = IF conn_pc = "connecting" THEN Min(failures + 1, MaxFailures) ELSE failures
    /\ conn_pc' = "closing"
    /\ UNCHANGED <<w_todo, store_before, resp, t_pc, futures_data, instants, n_opens, sent>>
    /\ UNCHANGED <<engineVars, classifierVars, analyzerVars, dashVars, parserVars, logVars>>

\* run_forever tears the failed connection down: on_close, and it returns
Closing ==
    /\ conn_pc = "closing"
    /\ data_store' = on_close(data_store)
    /\ conn_pc' = "ended"
    /\ UNCHANGED <<w_todo, store_before, resp, t_pc, futures_data, instants>>
    /\ UNCHANGED <<link, failures, n_opens, sent>>
    /\ UNCHANGED <<engineVars, classifierVars, analyzerVars, dashVars, parserVars, logVars>>

\* the server closes the connection cleanly: on_close, and run_forever returns
CleanClose ==
    /\ conn_pc = "open"
    /\ w_todo = <<>>
    /\ link' = "down"
    /\ data_store' = on_close(data_store)
    /\ conn_pc' = "ended"
    /\ UNCHANGED <<w_todo, store_before, resp, t_pc, futures_data, instants>>
    /\ UNCHANGED <<failures, n_opens, sent>>
    /\ UNCHANGED <<engineVars, classifierVars, analyzerVars, dashVars, parserVars, logVars>>

\* run_forever raises before it connects: caught by `except Exception`
RunForeverRaises ==
    /\ conn_pc = "connecting"
    /\ conn_pc' = "ended"
    /\ failures' = Min(failures + 1, MaxFailures)
    /\ UNCHANGED <<link, n_opens, sent, storeVars, engineVars, classifierVars, analyzerVars, dashVars, parserVars, logVars>>

\* print("Reconnecting in 5 seconds..."), time.sleep(5) begins
Sleep ==
    /\ conn_pc = "ended"
    /\ conn_pc' = "sleeping"
    /\ UNCHANGED <<link, failures, n_opens, sent, storeVars, engineVars, classifierVars, analyzerVars, dashVars, parserVars, logVars>>

\* time.sleep(5) returns and the loop calls run_forever again
Retry ==
    /\ conn_pc = "sleeping"
    /\ conn_pc' = AfterSleep(failures)
    /\ UNCHANGED <<link, failures, n_opens, sent, storeVars, engineVars, classifierVars, analyzerVars, dashVars, parserVars, logVars>>

\* the ticks of the feed, and a tick of a second option
ConnTicks ==
    ParsedTicks \cup
        {[token |-> OtherOptionToken, ltp |-> 9050, ltq |-> 150, atp |-> 9000,
          volume |-> 200, total_buy_qty |-> 30, total_sell_qty |-> 20,
          open |-> 9500, high |-> 9900, low |-> 8800, close |-> 9400, oi |-> 6000,
          best_bids |-> <<>>, best_asks |-> <<>>, bid_qty |-> <<>>, ask_qty |-> <<>>]}

\* a frame arrives on the open connection and decodes to parsed
ConnOnMessage ==
    /\ conn_pc = "open"
    /\ data_store.status.tick_count < MaxFrames
    /\ \E parsed \in ConnTicks :
           /\ on_message(parsed)
           /\ decoded' = [op |-> "on_message", result |-> parsed]
    /\ UNCHANGED message
    /\ UNCHANGED <<engineVars, classifierVars, analyzerVars, connVars, logVars, dashVars>>

StatusEndpoints == {"/health", "/status"}

StatusGet ==
    /\ \E endpoint \in StatusEndpoints : http_get(endpoint)
    /\ UNCHANGED <<engineVars, classifierVars, analyzerVars, connVars, parserVars, logVars, dashVars>>

ConnNext ==
    \/ Connected \/ Subscribed \/ ConnError \/ Closing \/ CleanClose
    \/ RunForeverRaises \/ Sleep \/ Retry
    \/ ConnOnMessage \/ UpdateDataStoreStep \/ StatusGet

\* the feed thread keeps running: a callback that is due is called, and
\* print and time.sleep return
ConnSpec ==
    /\ Init /\ [][ConnNext]_vars
    /\ WF_vars(Closing) /\ WF_vars(Sleep) /\ WF_vars(Retry)

----------------------------------------------------------------------------
(* order_flow_dashboard.py: run_dashboard in the main thread, which draws the
   charts, and the polling thread, which feeds on_tick.  process_tick runs
   statement group by statement group; nothing keeps animate from running
   between two of them *)

MaxPolls == 3

MAX_CVD_HISTORY == 100
MAX_ALERTS == 5

DashBids == <<2610000, 2609900, 2609800, 2609700, 2609600>>
DashAsks == <<2610100, 2610200, 2610300, 2610400, 2610500>>

\* what GET /tick can answer
ServerTicks ==
    {[ltp |-> 0, ltq |-> 0, best_bids |-> <<>>, best_asks |-> <<>>,
      bid_qty |-> <<>>, ask_qty |-> <<>>],
     [ltp |-> 2610050, ltq |-> 4000, best_bids |-> DashBids, best_asks |-> DashAsks,
      bid_qty |-> <<6000, 7000, 5500, 6200, 4000>>,
      ask_qty |-> <<1000, 1200, 800, 900, 1100>>],
     [ltp |-> 2610100, ltq |-> 75, best_bids |-> DashBids, best_asks |-> DashAsks,
      bid_qty |-> <<1000, 1200, 800, 900, 1100>>,
      ask_qty |-> <<1000, 1200, 800, 900, 1100>>],
     [ltp |-> 2609900, ltq |-> 150, best_bids |-> DashBids, best_asks |-> DashAsks,
      bid_qty |-> <<1000, 1200, 800, 900, 1100>>,
      ask_qty |-> <<6000, 7000, 5500, 6200, 4000>>]}

\* datetime.now() as on_tick can read it
DashTimestamps == {<<9, 15, 1>>, <<9, 16, 1>>}

TimeLeq(a, b) ==
    \/ a[1] < b[1]
    \/ a[1] = b[1] /\ a[2] < b[2]
    \/ a[1] = b[1] /\ a[2] = b[2] /\ a[3] <= b[3]

RECURSIVE DequeExtend_KeepsOldest(_, _, _)
DequeExtend_KeepsOldest(dq, items, maxlen) ==
    IF items = <<>> THEN dq
    ELSE DequeExtend_KeepsOldest(IF Len(dq) >= maxlen THEN dq ELSE Append(dq, Head(items)),
                                 Tail(items), maxlen)

\* dq.append(x) for every x of items, in order
RECURSIVE DequeExtend(_, _, _)
DequeExtend(dq, items, maxlen) ==
    IF items = <<>> THEN dq
    ELSE DequeExtend(DequeAppend(dq, Head(items), maxlen), Tail(items), maxlen)

\* alerts.append(a) if a
Alerts(results) == SelectSeq(results, LAMBDA a : a /= NoAlert)

\* analyze_tick: the alerts it returns and the analyzer state it leaves
AnalyzeOutcome(tick_data, delta_state, footprint, ra, ph, ch) ==
    LET big_block == BigBlockOutcome(tick_data.ltq, tick_data.direction, tick_data.ltp, ra)
        imbalance == ImbalanceOutcome(delta_state.total_buy_volume,
                                      delta_state.total_sell_volume, tick_data.ltp)
        ph1 == DequeAppend(ph, tick_data.ltp, HistoryMaxLen)
        ch1 == DequeAppend(ch, delta_state.cvd, HistoryMaxLen)
        divergence == DivergenceOutcome(ph1, ch1, big_block.recent, tick_data.ltp)
        stacked == StackedOutcome(tick_data.best_bids, tick_data.bid_qty,
                                  tick_data.best_asks, tick_data.ask_qty)
        absorption == IF footprint /= <<>>
                      THEN AbsorptionOutcome(footprint, tick_data.ltp)
                      ELSE NoAlert
    IN  [alerts |-> Alerts(<<big_block.alert, imbalance, divergence.alert,
                             stacked, absorption>>),
         recent |-> divergence.recent,
         price_history |-> ph1,
         cvd_history |-> ch1]

analyze_tick(tick_data, delta_state, footprint) ==
    LET out == AnalyzeOutcome(tick_data, delta_state, footprint,
                              recent_alerts, price_history, cvd_history)
    IN  /\ recent_alerts' = out.recent
        /\ price_history' = out.price_history
        /\ cvd_history' = out.cvd_history
        /\ det_call' = [op |-> "analyze_tick", tick_data |-> tick_data]
        /\ det_result' = out.alerts
        /\ n_divergence_calls' = n_divergence_calls + 1

\* save_alert: the row written to alerts.csv (after the timestamp column)
AlertRow(alert) ==
    <<alert.alert_type, alert.direction, alert.price, alert.details, alert.severity>>

RECURSIVE AlertRows(_)
AlertRows(alerts) ==
    IF alerts = <<>> THEN <<>> ELSE <<AlertRow(Head(alerts))>> \o AlertRows(Tail(alerts))

\* data.get(key, [0])[0] if data.get(key) else 0
FirstOf(data, key) ==
    IF DictGet(data, key, <<>>) /= <<>> THEN data[key][1] ELSE 0

\* save_order_flow_tick: the row written to order_flow_ticks.csv (without
\* the symbol column)
OrderFlowRow(timestamp, data, direction) ==
    <<timestamp, DictGet(data, "ltp", 0), DictGet(data, "ltq", 0), direction,
      FirstOf(data, "best_bids"), FirstOf(data, "best_asks"),
      FirstOf(data, "bid_qty"), FirstOf(data, "ask_qty"),
      DictGet(data, "total_buy_qty", 0), DictGet(data, "total_sell_qty", 0),
      DictGet(data, "volume", 0), DictGet(data, "oi", 0) \div NIFTY_LOT_SIZE>>

\* run_dashboard: init_delta_files
DashInitFiles ==
    /\ run_pc = "start"
    /\ poll.pc = "not_started"
    /\ init_delta_files
    /\ run_pc' = "files"
    /\ UNCHANGED <<classifierVars, analyzerVars, storeVars, connVars, parserVars, logVars, dashVars>>

\* run_dashboard: reset_engine, reset_analyzer, then the polling thread starts
DashStart ==
    /\ run_pc = "files"
    /\ reset_engine
    /\ reset_analyzer
    /\ run_pc' = "running"
    /\ poll' = [poll EXCEPT !.pc = "idle"]
    /\ UNCHANGED <<classifierVars, storeVars, connVars, parserVars, logVars, dashboard, fetched, chart>>

\* polling_thread_func: one pass of the loop that gets a tick worth processing
PollFetch ==
    /\ run_pc = "running"
    /\ poll.pc = "idle"
    /\ Len(fetched) < MaxPolls
    /\ \E tick_data \in ServerTicks :
           /\ tick_data.ltp > 0
           /\ ~(tick_data.ltp = poll.last_ltp /\ tick_data.ltq = poll.last_ltq)
           /\ poll' = [poll EXCEPT !.pc = "on_tick",
                                   !.last_ltp = tick_data.ltp,
                                   !.last_ltq = tick_data.ltq,
                                   !.parsed_data = tick_data]
           /\ fetched' = Append(fetched, tick_data)
    /\ UNCHANGED <<engineVars, classifierVars, analyzerVars, storeVars, connVars, parserVars, logVars,
                   dashboard, chart>>

\* on_tick up to the process_tick call
OnTickClassify ==
    /\ run_pc = "running"
    /\ poll.pc = "on_tick"
    /\ \E timestamp \in DashTimestamps :
           /\ TimeLeq(poll.timestamp, timestamp)
           /\ classify_trade_direction(poll.parsed_data.ltp, poll.parsed_data.best_bids,
                                       poll.parsed_data.best_asks, dashboard.prev_ltp)
           /\ poll' = [poll EXCEPT !.pc = "process_tick",
                                   !.timestamp = timestamp,
                                   !.direction = last_direction']
    /\ dashboard' = [dashboard EXCEPT
                        !.tick_count = @ + 1,
                        !.prev_ltp = poll.parsed_data.ltp,
                        !.current_depth = [bids |-> poll.parsed_data.best_bids,
                                           asks |-> poll.parsed_data.best_asks,
                                           bid_qty |-> poll.parsed_data.bid_qty,
                                           ask_qty |-> poll.parsed_data.ask_qty]]
    /\ UNCHANGED <<engineVars, analyzerVars, storeVars, connVars, parserVars, logVars, fetched, chart>>

\* process_tick: the cumulative volumes and the CVD
ProcessTickTotals ==
    /\ run_pc = "running"
    /\ poll.pc = "process_tick"
    /\ total_buy_volume' =
           IF poll.direction = "BUY" THEN total_buy_volume + poll.parsed_data.ltq
           ELSE total_buy_volume
    /\ total_sell_volume' =
           IF poll.direction = "BUY" THEN total_sell_volume
           ELSE total_sell_volume + poll.parsed_data.ltq
    /\ cvd' = CvdAfter(cvd, poll.direction, poll.parsed_data.ltq)
    /\ poll' = [poll EXCEPT !.pc = "footprint"]
    /\ UNCHANGED <<candle_data, current_minute, footprint_data, delta_candle_writer,
                   candle_log, ticks, run_pc>>
    /\ UNCHANGED <<classifierVars, analyzerVars, storeVars, connVars, parserVars, logVars,
                   dashboard, fetched, chart>>

\* process_tick: the footprint
ProcessTickFootprint ==
    /\ run_pc = "running"
    /\ poll.pc = "footprint"
    /\ footprint_data' = FootprintAfter(footprint_data, poll.direction,
                                        poll.parsed_data.ltq,
                                        RoundPrice(poll.parsed_data.ltp))
    /\ poll' = [poll EXCEPT !.pc = "candle"]
    /\ UNCHANGED <<cvd, total_buy_volume, total_sell_volume, candle_data,
                   current_minute, delta_candle_writer, candle_log, ticks, run_pc>>
    /\ UNCHANGED <<classifierVars, analyzerVars, storeVars, connVars, parserVars, logVars,
                   dashboard, fetched, chart>>

\* process_tick: the candle, to the return
ProcessTickCandle ==
    /\ run_pc = "running"
    /\ poll.pc = "candle"
    /\ LET minute_key == MinuteKey(poll.timestamp)
       IN  /\ candle_log' =
                  IF /\ minute_key /= current_minute
                     /\ current_minute /= NoMinute
                     /\ current_minute \in DOMAIN candle_data
                  THEN save_candle(candle_log, delta_candle_writer, candle_data,
                                   current_minute)
                  ELSE candle_log
           /\ current_minute' = minute_key
           /\ candle_data' = CandlesAfter(candle_data, current_minute, minute_key,
                                          poll.direction, poll.parsed_data.ltq,
                                          poll.parsed_data.ltp, cvd)
           /\ ticks' = Append(ticks, [direction |-> poll.direction,
                                      quantity |-> poll.parsed_data.ltq,
                                      price |-> poll.parsed_data.ltp,
                                      minute |-> minute_key])
    /\ poll' = [poll EXCEPT !.pc = "analyze"]
    /\ UNCHANGED <<cvd, total_buy_volume, total_sell_volume, footprint_data,
                   delta_candle_writer, run_pc>>
    /\ UNCHANGED <<classifierVars, analyzerVars, storeVars, connVars, parserVars, logVars,
                   dashboard, fetched, chart>>

\* on_tick after process_tick: the chart histories, analyze_tick, the alerts
OnTickAnalyze ==
    /\ run_pc = "running"
    /\ poll.pc = "analyze"
    /\ LET state == get_current_state
           tick_data == [ltp |-> poll.parsed_data.ltp, ltq |-> poll.parsed_data.ltq,
                         direction |-> poll.direction,
                         best_bids |-> poll.parsed_data.best_bids,
                         best_asks |-> poll.parsed_data.best_asks,
                         bid_qty |-> poll.parsed_data.bid_qty,
                         ask_qty |-> poll.parsed_data.ask_qty]
       IN  /\ analyze_tick(tick_data, state, get_footprint_for_display(20))
           /\ dashboard' = [dashboard EXCEPT
                               !.cvd_history = DequeAppend(@, state.cvd, MAX_CVD_HISTORY),
                               !.price_history = DequeAppend(@, poll.parsed_data.ltp,
                                                             MAX_CVD_HISTORY),
                               !.time_history = DequeAppend(@, poll.timestamp,
                                                            MAX_CVD_HISTORY),
                               !.alert_history = DequeExtend(@, det_result', MAX_ALERTS)]
           /\ alerts_log' = alerts_log \o AlertRows(det_result')
           /\ order_flow_log' = Append(order_flow_log,
                                       OrderFlowRow(poll.timestamp, poll.parsed_data,
                                                    poll.direction))
    /\ poll' = [poll EXCEPT !.pc = "idle"]
    /\ UNCHANGED <<cycle, cls_kept>>
    /\ UNCHANGED <<engineVars, classifierVars, storeVars, connVars, parserVars, fetched, chart>>

\* animate, called by the FuncAnimation timer in the main thread
Animate ==
    /\ run_pc = "running"
    /\ chart' = [footprint |-> get_footprint_for_display(15),
                 cvd_values |-> dashboard.cvd_history,
                 candles |-> get_all_candles,
                 depth |-> dashboard.current_depth,
                 alerts |-> dashboard.alert_history,
                 during |-> poll.pc]
    /\ UNCHANGED <<engineVars, classifierVars, analyzerVars, storeVars, connVars, parserVars, logVars,
                   poll, dashboard, fetched>>

\* run_dashboard: the window was closed; close_delta_files, then the process
\* ends and the polling thread with it
DashClose ==
    /\ run_pc = "running"
    /\ close_delta_files
    /\ run_pc' = "done"
    /\ UNCHANGED <<classifierVars, analyzerVars, storeVars, connVars, parserVars, logVars, dashVars>>

DashNext ==
    \/ DashInitFiles \/ DashStart \/ PollFetch \/ OnTickClassify
    \/ ProcessTickTotals \/ ProcessTickFootprint \/ ProcessTickCandle
    \/ OnTickAnalyze \/ Animate \/ DashClose

DashSpec == Init /\ [][DashNext]_vars

----------------------------------------------------------------------------
(* The polling thread of the dashboard alone, one pass of its loop per step,
   with the answers GET /tick can get and with file writes that can fail *)

MaxCycles == 3

\* what requests.get(DATA_SERVER_URL/tick, timeout=1) can give
\* the ticks of the store, and a trade at the price of one of them with
\* another quantity
PolledTicks ==
    ServerTicks \cup
        {[ltp |-> 2610050, ltq |-> 75, best_bids |-> DashBids, best_asks |-> DashAsks,
          bid_qty |-> <<1000, 1200, 800, 900, 1100>>,
          ask_qty |-> <<1000, 1200, 800, 900, 1100>>]}

Responses ==
    {[kind |-> "timeout"], [kind |-> "connection_error"], [kind |-> "status_500"],
     [kind |-> "ok", body |-> EmptyMap]}
        \cup {[kind |-> "ok", body |-> t] : t \in PolledTicks}

\* the writerow or flush that raises OSError in a pass, if any
WriteErrors == {"none", "candle", "alert", "tick"}

\* fetch_tick_from_server: the JSON body of a 200 answer, else None
fetch_tick_from_server(response) ==
    IF response.kind = "ok" THEN response.body ELSE None

Usable_AnyBody(tick_data) == tick_data /= None /\ tick_data /= EmptyMap

\* tick_data and tick_data.get('ltp', 0) > 0
Usable(tick_data) ==
    tick_data /= None /\ tick_data /= EmptyMap /\ DictGet(tick_data, "ltp", 0) > 0

Stale_LtpOnly(tick_data) == tick_data.ltp = poll.last_ltp

\* the same ltp and ltq as the tick last handed to on_tick
Stale(tick_data) ==
    tick_data.ltp = poll.last_ltp /\ DictGet(tick_data, "ltq", 0) = poll.last_ltq

\* a pass in which the condition on tick_data fails: time.sleep(0.1)
PollNoData ==
    /\ run_pc = "running"
    /\ poll.pc = "idle"
    /\ cycle.n < MaxCycles
    /\ \E response \in Responses :
           /\ ~Usable(fetch_tick_from_server(response))
           /\ cycle' = [n |-> cycle.n + 1, response |-> response,
                        fetch |-> "no_data", error |-> "none"]
    /\ UNCHANGED <<alerts_log, order_flow_log, cls_kept>>
    /\ UNCHANGED <<engineVars, classifierVars, analyzerVars, storeVars, connVars,
                   parserVars, dashVars>>

\* a pass that gets the tick it handed to on_tick last: sleep and continue
PollStale ==
    /\ run_pc = "running"
    /\ poll.pc = "idle"
    /\ cycle.n < MaxCycles
    /\ \E response \in Responses :
           /\ Usable(fetch_tick_from_server(response))
           /\ Stale(response.body)
           /\ cycle' = [n |-> cycle.n + 1, response |-> response,
                        fetch |-> "stale", error |-> "none"]
    /\ UNCHANGED <<alerts_log, order_flow_log, cls_kept>>
    /\ UNCHANGED <<engineVars, classifierVars, analyzerVars, storeVars, connVars,
                   parserVars, dashVars>>

\* process_tick when the writerow or flush of save_candle raises: the
\* statements before the save_candle call have run
process_tick_raises(direction, quantity, price) ==
    /\ total_buy_volume' =
           IF direction = "BUY" THEN total_buy_volume + quantity
           ELSE total_buy_volume
    /\ total_sell_volume' =
           IF direction = "BUY" THEN total_sell_volume
           ELSE total_sell_volume + quantity
    /\ cvd' = CvdAfter(cvd, direction, quantity)
    /\ footprint_data' = FootprintAfter(footprint_data, direction, quantity,
                                        RoundPrice(price))
    /\ UNCHANGED <<candle_data, current_minute, delta_candle_writer, candle_log, ticks>>

\* process_tick reaches its save_candle call, and the writer is open
SaveCandleDue(timestamp) ==
    /\ MinuteKey(timestamp) /= current_minute
    /\ current_minute /= NoMinute
    /\ current_minute \in DOMAIN candle_data
    /\ delta_candle_writer /= "None"

\* on_tick(parsed_data) to its return, or to the statement that raises
on_tick(parsed_data, timestamp, failing) ==
    /\ classify_trade_direction(parsed_data.ltp, parsed_data.best_bids,
                                parsed_data.best_asks, dashboard.prev_ltp)
    /\ IF failing = "candle"
       THEN /\ SaveCandleDue(timestamp)
            /\ process_tick_raises(last_direction', parsed_data.ltq, parsed_data.ltp)
            /\ dashboard' = [dashboard EXCEPT
                                !.tick_count = @ + 1,
                                !.prev_ltp = parsed_data.ltp,
                                !.current_depth = [bids |-> parsed_data.best_bids,
                                                   asks |-> parsed_data.best_asks,
                                                   bid_qty |-> parsed_data.bid_qty,
                                                   ask_qty |-> parsed_data.ask_qty]]
            /\ UNCHANGED <<analyzerVars, alerts_log, order_flow_log>>
       ELSE /\ process_tick(last_direction', parsed_data.ltq, parsed_data.ltp, timestamp)
            /\ analyze_tick([ltp |-> parsed_data.ltp, ltq |-> parsed_data.ltq,
                             direction |-> last_direction',
                             best_bids |-> parsed_data.best_bids,
                             best_asks |-> parsed_data.best_asks,
                             bid_qty |-> parsed_data.bid_qty,
                             ask_qty |-> parsed_data.ask_qty],
                            CurrentState(cvd', total_buy_volume', total_sell_volume',
                                         current_minute', candle_data'),
                            FootprintForDisplay(footprint_data', 20))
            /\ \E saved \in 0..Len(det_result') :
                   \* the alerts whose save_alert call returned
                   /\ IF failing = "alert"
                      THEN saved < Len(det_result')
                      ELSE saved = Len(det_result')
                   /\ alerts_log' = alerts_log \o AlertRows(SubSeq(det_result', 1, saved))
                   /\ dashboard' = [dashboard EXCEPT
                          !.tick_count = @ + 1,
                          !.prev_ltp = parsed_data.ltp,
                          !.current_depth = [bids |-> parsed_data.best_bids,
                                             asks |-> parsed_data.best_asks,
                                             bid_qty |-> parsed_data.bid_qty,
                                             ask_qty |-> parsed_data.ask_qty],
                          !.cvd_history = DequeAppend(@, cvd', MAX_CVD_HISTORY),
                          !.price_history = DequeAppend(@, parsed_data.ltp,
                                                        MAX_CVD_HISTORY),
                          !.time_history = DequeAppend(@, timestamp, MAX_CVD_HISTORY),
                          !.alert_history =
                              DequeExtend(@, SubSeq(det_result', 1,
                                                    Min(saved + 1, Len(det_result'))),
                                          MAX_ALERTS)]
            /\ order_flow_log' =
                   IF failing = "none"
                   THEN Append(order_flow_log,
                               OrderFlowRow(timestamp, parsed_data, last_direction'))
                   ELSE order_flow_log

\* a pass that gets a new tick: on_tick runs to its return or to the write
\* that raises, and the except clause of the loop sleeps
PollTickOf(responses, timestamps, errors) ==
    /\ run_pc = "running"
    /\ poll.pc = "idle"
    /\ \E response \in responses, timestamp \in timestamps, failing \in errors :
           /\ Usable(fetch_tick_from_server(response))
           /\ ~Stale(response.body)
           /\ TimeLeq(poll.timestamp, timestamp)
           /\ on_tick(response.body, timestamp, failing)
           /\ poll' = [poll EXCEPT !.last_ltp = response.body.ltp,
                                   !.last_ltq = response.body.ltq,
                                   !.parsed_data = response.body,
                                   !.timestamp = timestamp,
                                   !.direction = last_direction']
           /\ fetched' = Append(fetched, response.body)
           /\ cycle' = [n |-> cycle.n + 1, response |-> response,
                        fetch |-> "tick", error |-> failing]
    /\ UNCHANGED <<run_pc, storeVars, connVars, parserVars, chart, cls_kept>>

PollTick ==
    /\ cycle.n < MaxCycles
    /\ PollTickOf(Responses, DashTimestamps, WriteErrors)

PollNext == DashInitFiles \/ DashStart \/ PollNoData \/ PollStale \/ PollTick

PollSpec == Init /\ [][PollNext]_vars

----------------------------------------------------------------------------
(* A longer session of the polling loop: the market trades up through twenty
   price levels, falls back through eleven lower ones, and then any tick
   comes *)

SessionPasses == 31
MaxFreePasses == 3

\* the tick GET /tick answers with in pass n of the session
SessionTickAt(n) ==
    [ltp |-> IF n <= 20 THEN 2620000 + 100 * (n - 1) ELSE 2610500 - 100 * (n - 21),
     ltq |-> IF n <= 20 THEN 3000 ELSE 1000,
     best_bids |-> <<>>, best_asks |-> <<>>, bid_qty |-> <<>>, ask_qty |-> <<>>]

SessionResponses(n) ==
    IF n <= SessionPasses THEN {[kind |-> "ok", body |-> SessionTickAt(n)]}
    ELSE {[kind |-> "ok", body |-> t] : t \in PolledTicks}

SessionPollTick ==
    /\ cycle.n < SessionPasses + MaxFreePasses
    /\ PollTickOf(SessionResponses(cycle.n + 1),
                  IF cycle.n < SessionPasses THEN {<<9, 15, 1>>} ELSE DashTimestamps,
                  {"none"})

LongSessionNext == DashInitFiles \/ DashStart \/ SessionPollTick

LongSessionSpec == Init /\ [][LongSessionNext]_vars

----------------------------------------------------------------------------
(* The parsers called on frames of the feed's binary layout: 2 header bytes,
   a 25-byte token field, the LTP at byte 43, the quote fields up to byte 147,
   ten 20-byte depth entries up to byte 347, 379 bytes in all *)

ParseLtp ==
    /\ decoded' = [op |-> "parse_ltp_packet", result |-> parse_ltp_packet(message)]
    /\ UNCHANGED message
    /\ UNCHANGED <<engineVars, classifierVars, analyzerVars, storeVars, connVars, dashVars,
                   logVars>>

ParseLtpTest ==
    /\ decoded' = [op |-> "angelone_parse_ltp_packet", result |-> angelone_parse_ltp_packet(message)]
    /\ UNCHANGED message
    /\ UNCHANGED <<engineVars, classifierVars, analyzerVars, storeVars, connVars, dashVars,
                   logVars>>

ParseSnapQuote ==
    /\ decoded' = [op |-> "parse_snapquote_packet", result |-> parse_snapquote_packet(message)]
    /\ UNCHANGED message
    /\ UNCHANGED <<engineVars, classifierVars, analyzerVars, storeVars, connVars, dashVars,
                   logVars>>

ParseFullSnapQuote ==
    /\ decoded' = [op |-> "parse_full_snapquote", result |-> parse_full_snapquote(message)]
    /\ UNCHANGED message
    /\ UNCHANGED <<engineVars, classifierVars, analyzerVars, storeVars, connVars, dashVars,
                   logVars>>

ParseNext == ParseLtp \/ ParseLtpTest \/ ParseSnapQuote \/ ParseFullSnapQuote

\* any frame, not yet handed to a parser
ParseInit ==
    /\ InitEngine /\ InitClassifier /\ InitAnalyzer /\ InitStore /\ InitConn /\ InitDash
    /\ InitLogs
    /\ message \in Frames
    /\ decoded = [op |-> "none"]

ParseSpec == ParseInit /\ [][ParseNext]_vars

----------------------------------------------------------------------------
(* What the tick history says the engine state should be *)

RECURSIVE SumQty(_, _)
SumQty(s, direction) ==
    IF s = <<>> THEN 0
    ELSE (IF Head(s).direction = direction THEN Head(s).quantity ELSE 0)
         + SumQty(Tail(s), direction)

RECURSIVE SumQtyAt(_, _, _)
SumQtyAt(s, direction, level) ==
    IF s = <<>> THEN 0
    ELSE (IF Head(s).direction = direction /\ RoundPrice(Head(s).price) = level
          THEN Head(s).quantity ELSE 0)
         + SumQtyAt(Tail(s), direction, level)

SetMax(S) == CHOOSE x \in S : \A y \in S : x >= y
SetMin(S) == CHOOSE x \in S : \A y \in S : x <= y

\* "HH:MM" strings compare as their <<HH, MM>> pairs
KeyLeq(a, b) == a[1] < b[1] \/ (a[1] = b[1] /\ a[2] <= b[2])

NonDecreasingKeys(s) ==
    \A i \in 1..(Len(s) - 1) : KeyLeq(s[i].minute, s[i + 1].minute)

\* the candle of the ticks s[from..to], all of one minute
CandleOfTicks(s, from, to) ==
    LET part == SubSeq(s, from, to)
        prices == {part[i].price : i \in 1..Len(part)}
        bv == SumQty(part, "BUY")
        sv == SumQty(part, "SELL")
        upto == SubSeq(s, 1, to)
    IN  [open |-> s[from].price, high |-> SetMax(prices), low |-> SetMin(prices),
         close |-> s[to].price, buy_vol |-> bv, sell_vol |-> sv, delta |-> bv - sv,
         cvd |-> SumQty(upto, "BUY") - SumQty(upto, "SELL"),
         tick_count |-> to - from + 1]

TickStep == Len(ticks') = Len(ticks) + 1
LastTick(s) == s[Len(s)]

----------------------------------------------------------------------------
(* Claims about the engine *)

\* C1: since the last reset_engine, cvd is the sum of the BUY quantities minus
\* the sum of the SELL quantities, and equals total_buy_volume - total_sell_volume
C1_CvdIsBuyMinusSell ==
    /\ cvd = SumQty(ticks, "BUY") - SumQty(ticks, "SELL")
    /\ total_buy_volume = SumQty(ticks, "BUY")
    /\ total_sell_volume = SumQty(ticks, "SELL")
    /\ cvd = total_buy_volume - total_sell_volume

C1_Witness ==
    /\ Len(ticks) = MaxTicks
    /\ SumQty(ticks, "BUY") > 0
    /\ SumQty(ticks, "SELL") > 0
    /\ Cardinality(DOMAIN candle_data) > 1
    /\ Cardinality(DOMAIN footprint_data) > 1

FootprintMatchesTicks ==
    /\ DOMAIN footprint_data = {RoundPrice(ticks[i].price) : i \in 1..Len(ticks)}
    /\ \A level \in DOMAIN footprint_data :
           /\ footprint_data[level].buy = SumQtyAt(ticks, "BUY", level)
           /\ footprint_data[level].sell = SumQtyAt(ticks, "SELL", level)

FootprintLevelsKept ==
    TickStep =>
        \A level \in DOMAIN footprint_data :
            /\ level \in DOMAIN footprint_data'
            /\ footprint_data'[level].buy >= footprint_data[level].buy
            /\ footprint_data'[level].sell >= footprint_data[level].sell

\* C2: the footprint's buy and sell volume at a level are the sums of the BUY
\* and SELL quantities of the ticks whose rounded price is that level, and
\* process_tick never removes or decreases a level
C2_FootprintTotals == []FootprintMatchesTicks /\ [][FootprintLevelsKept]_vars

C2_Witness ==
    /\ Len(ticks) = MaxTicks
    /\ \E level \in DOMAIN footprint_data :
           footprint_data[level].buy > 0 /\ footprint_data[level].sell > 0
    /\ Cardinality(DOMAIN footprint_data) > 1

\* a candle is finalized once a tick of another minute has followed it
Finalized(minute_key) ==
    minute_key \in DOMAIN candle_data /\ minute_key /= current_minute

\* C3: once a tick of another minute has followed a candle, no later
\* process_tick call, with any timestamp (one of the candle's own minute
\* included), changes any field of that candle
C3_FinalizedNeverChanges ==
    [][TickStep =>
         \A k \in DOMAIN candle_data :
             Finalized(k) => k \in DOMAIN candle_data' /\ candle_data'[k] = candle_data[k]
      ]_vars

\* what process_tick does to a finalized candle: a call whose minute key
\* differs from the candle's key leaves it unchanged; a call whose minute key
\* equals it replaces the candle by a newly opened one holding only that tick
FinalizedChangesOnlyOnRevisit ==
    [][TickStep =>
         \A k \in DOMAIN candle_data :
             Finalized(k) =>
                 /\ k \in DOMAIN candle_data'
                 /\ k /= LastTick(ticks').minute => candle_data'[k] = candle_data[k]
                 /\ k = LastTick(ticks').minute =>
                        candle_data'[k] = CandleOfTicks(ticks', Len(ticks'), Len(ticks'))
      ]_vars

RevisitedMinute ==
    /\ Len(ticks) >= 3
    /\ \E k \in DOMAIN candle_data : Finalized(k) /\ k = ticks[1].minute
    /\ ticks[Len(ticks) - 1].minute = current_minute
    /\ LastTick(ticks).minute = current_minute

TestTicks ==
    << [direction |-> "BUY", quantity |-> 150, price |-> 2610050, minute |-> <<9, 15>>],
       [direction |-> "BUY", quantity |-> 75, price |-> 2610100, minute |-> <<9, 15>>],
       [direction |-> "SELL", quantity |-> 225, price |-> 2609900, minute |-> <<9, 15>>] >>

\* C4: for ticks with non-decreasing minute keys the candle of a minute has the
\* open, high, low, close, tick count, volumes and delta of that minute's ticks
\* and the running CVD after its last tick; BUY 150, BUY 75, SELL 225 in one
\* minute give buy_vol 225, sell_vol 225, delta 0
C4_CandleOfMinute ==
    NonDecreasingKeys(ticks) =>
        /\ DOMAIN candle_data = {ticks[i].minute : i \in 1..Len(ticks)}
        /\ \A k \in DOMAIN candle_data :
               LET idx == {i \in 1..Len(ticks) : ticks[i].minute = k}
               IN  candle_data[k] = CandleOfTicks(ticks, SetMin(idx), SetMax(idx))
        /\ ticks = TestTicks =>
               /\ cvd = 0
               /\ candle_data[<<9, 15>>].buy_vol = 225
               /\ candle_data[<<9, 15>>].sell_vol = 225
               /\ candle_data[<<9, 15>>].delta = 0

C4_Witness ==
    /\ ticks = TestTicks
    /\ candle_data[<<9, 15>>].tick_count = 3

\* the sum of one field over the candles of the keys
RECURSIVE CandleSum(_, _, _)
CandleSum(cd, keys, field) ==
    IF keys = {} THEN 0
    ELSE LET k == CHOOSE x \in keys : TRUE
         IN  cd[k][field] + CandleSum(cd, keys \ {k}, field)

\* C33: for ticks with non-decreasing minute keys since the last reset the
\* candles partition the session totals: their buy_vol sum to
\* total_buy_volume, their sell_vol to total_sell_volume, their delta to cvd
\* and their tick_count to the number of process_tick calls
C33_CandlesPartitionTotals ==
    NonDecreasingKeys(ticks) =>
        /\ CandleSum(candle_data, DOMAIN candle_data, "buy_vol") = total_buy_volume
        /\ CandleSum(candle_data, DOMAIN candle_data, "sell_vol") = total_sell_volume
        /\ CandleSum(candle_data, DOMAIN candle_data, "delta") = cvd
        /\ CandleSum(candle_data, DOMAIN candle_data, "tick_count") = Len(ticks)

C33_Witness ==
    /\ NonDecreasingKeys(ticks)
    /\ Len(ticks) = MaxTicks
    /\ Cardinality(DOMAIN candle_data) = 2
    /\ candle_data[current_minute].tick_count = 2
    /\ total_buy_volume > 0
    /\ total_sell_volume > 0

\* what remains of it for any order of the timestamps: a tick of a minute
\* that was left before opens that minute's candle anew, and the ticks the
\* replaced candle held are in the totals and in no candle
CandlesWithinTotals ==
    /\ CandleSum(candle_data, DOMAIN candle_data, "buy_vol") <= total_buy_volume
    /\ CandleSum(candle_data, DOMAIN candle_data, "sell_vol") <= total_sell_volume
    /\ CandleSum(candle_data, DOMAIN candle_data, "tick_count") <= Len(ticks)

----------------------------------------------------------------------------
(* Claims about the candle log, over a run of the dashboard *)

\* s[n] is the last tick of its candle: the next tick is of another minute
\* (closed says whether the last tick of s ends its candle too)
EndsCandle(s, n, closed) ==
    IF n = Len(s) THEN closed ELSE s[n + 1].minute /= s[n].minute

RECURSIVE CandleStart(_, _)
CandleStart(s, n) ==
    IF n = 1 \/ s[n - 1].minute /= s[n].minute THEN n ELSE CandleStart(s, n - 1)

RECURSIVE RowsUpTo(_, _, _)
RowsUpTo(s, n, closed) ==
    IF n = 0 THEN <<>>
    ELSE IF EndsCandle(s, n, closed)
         THEN Append(RowsUpTo(s, n - 1, closed),
                     CandleRow(s[n].minute, CandleOfTicks(s, CandleStart(s, n), n)))
         ELSE RowsUpTo(s, n - 1, closed)

\* C5: at a tick of a new minute the open candle is persisted with its final
\* values before the new candle is opened from the tick's price with zero
\* volumes; over a run with an initialised log each candle is persisted
\* exactly once, at the next minute's first tick or at close_delta_files
C5_EachCandlePersistedOnce ==
    /\ run_pc = "running" =>
           /\ candle_log = RowsUpTo(ticks, Len(ticks), FALSE)
           /\ ticks /= <<>> =>
                  candle_data[current_minute] =
                      CandleOfTicks(ticks, CandleStart(ticks, Len(ticks)), Len(ticks))
    /\ run_pc = "done" => candle_log = RowsUpTo(ticks, Len(ticks), TRUE)

C5_Witness ==
    /\ run_pc = "done"
    /\ Len(candle_log) = 2
    /\ candle_log[1].tick_count = 2
    /\ candle_log[1].timestamp /= candle_log[2].timestamp

\* the candle of key k, as it is now, is a row of the log
Persisted(log, k) ==
    \E i \in 1..Len(log) : log[i] = CandleRow(k, candle_data[k])

\* the step removes the candle of key k from candle_data (discarded) or
\* opens a new candle in its place (overwritten)
Dropped(k) ==
    \/ k \notin DOMAIN candle_data'
    \/ TickStep /\ k /= current_minute /\ current_minute' = k

\* C34: with the candle log initialised, whatever the order of the
\* process_tick, reset_engine and close_delta_files calls, a candle is a row
\* of the log by the time it is discarded or overwritten
C34_NoCandleLost ==
    [][\A k \in DOMAIN candle_data :
           (delta_candle_writer = "open" /\ Dropped(k)) => Persisted(candle_log', k)]_vars

\* what holds: process_tick and close_delta_files lose no candle, a candle
\* of a minute that is entered again was written when the minute was left
NoCandleLostByTick ==
    [][\A k \in DOMAIN candle_data :
           (delta_candle_writer = "open" /\ Dropped(k) /\ candle_data' /= EmptyMap)
               => Persisted(candle_log', k)]_vars

\* reset_engine has discarded a session's candles, the open one unwritten
CandleLostAtReset ==
    /\ run_pc = "running"
    /\ candle_data = EmptyMap
    /\ ticks = <<>>
    /\ Len(candle_log) = 1
    /\ candle_log[1].tick_count = 1

----------------------------------------------------------------------------
(* Claims about the classifier *)

\* a best ask (bid, previous price) exists when there is one and it is positive:
\* the feed and the callers hold 0 where there is none
Exists(ladder) == ladder /= <<>> /\ ladder[1] > 0
Known(price) == price > 0

\* C6: BUY if a best ask exists and ltp >= best ask; else SELL if a best bid
\* exists and ltp <= best bid; else, the previous price known, BUY on an uptick
\* and SELL on a downtick; otherwise the direction of the previous call.
\* Bids [100,99], asks [102,103], ltp 102, previous price 101 give BUY
C6_FourRulesInOrder ==
    LET a == cls_call
        expected ==
            IF Exists(a.best_asks) /\ a.ltp >= a.best_asks[1] THEN "BUY"
            ELSE IF Exists(a.best_bids) /\ a.ltp <= a.best_bids[1] THEN "SELL"
            ELSE IF Known(a.prev_ltp) /\ a.ltp > a.prev_ltp THEN "BUY"
            ELSE IF Known(a.prev_ltp) /\ a.ltp < a.prev_ltp THEN "SELL"
            ELSE a.last_direction
    IN  /\ cls_result = expected
        /\ last_direction = cls_result
        /\ (/\ a.best_bids = <<10000, 9900>> /\ a.best_asks = <<10200, 10300>>
            /\ a.ltp = 10200 /\ a.prev_ltp = 10100) => cls_result = "BUY"

C6_Witness ==
    /\ cls_call.best_bids = <<10000, 9900>>
    /\ cls_call.best_asks = <<10200, 10300>>
    /\ cls_call.ltp = 10200
    /\ cls_call.prev_ltp = 10100
    /\ cls_call.last_direction = "SELL"
    /\ cls_result = "BUY"

----------------------------------------------------------------------------
(* Claims about the detectors *)

BigBlockStep == det_call'.op = "detect_big_block"
Qualifies(call) == call.op = "detect_big_block" /\ call.quantity >= BIG_BLOCK_THRESHOLD

\* C7: of two successive detect_big_block calls with quantity >= threshold, the
\* same direction and the same rounded price, the first returns the alert and
\* the second none; a further such call returns no alert while the key is in
\* the dedup set
C7_BigBlockAlertedOnce ==
    [][(BigBlockStep /\ Qualifies(det_call')) =>
         LET key == BigBlockKey(det_call'.direction, det_call'.price)
         IN  /\ InDeque(key, recent_alerts) => det_result' = NoAlert
             /\ ~InDeque(key, recent_alerts) => det_result'.alert_type = "BIG_BLOCK"
             /\ InDeque(key, recent_alerts')
             /\ (/\ Qualifies(det_call)
                 /\ det_call.direction = det_call'.direction
                 /\ RoundPrice(det_call.price) = RoundPrice(det_call'.price))
                    => det_result' = NoAlert
      ]_vars

C7_Witness ==
    /\ Qualifies(det_call)
    /\ det_call.price = 2610040
    /\ det_result = NoAlert
    /\ InDeque(BigBlockKey(det_call.direction, 2610050), recent_alerts)
    /\ Len(recent_alerts) = RecentAlertsMaxLen

\* C8: recent_alerts never holds more than 100 keys, and a key inserted at
\* capacity evicts the key that was inserted earliest
C8_DedupBoundedFifo ==
    /\ [](Len(recent_alerts) <= 100)
    /\ [][(Len(recent_alerts') > 0 /\ recent_alerts' /= recent_alerts) =>
            LET key == recent_alerts'[Len(recent_alerts')]
            IN  /\ ~InDeque(key, recent_alerts)
                /\ Len(recent_alerts) < 100 => recent_alerts' = Append(recent_alerts, key)
                /\ Len(recent_alerts) = 100 =>
                       recent_alerts' = Append(Tail(recent_alerts), key)
         ]_vars

C8_Witness ==
    /\ Len(recent_alerts) = 100
    /\ recent_alerts[1] = WarmAlerts[3]
    /\ recent_alerts[98] = "DIVERGENCE_BEARISH"

DivergenceStep == det_call'.op = "detect_cvd_divergence"
DivergenceTypes == {"BEARISH", "BULLISH"}
DivergenceKey(type) == "DIVERGENCE_" \o type
Returned(result, type) ==
    result.alert_type = "CVD_DIVERGENCE" /\ result.direction = type

\* C16: once detect_cvd_divergence has returned a BEARISH (BULLISH) alert, no
\* later call returns an alert of that type until the key DIVERGENCE_BEARISH
\* (DIVERGENCE_BULLISH) has been evicted from recent_alerts or the analyzer
\* has been reset: a returned alert leaves its key in recent_alerts, no call
\* returns the alert while the key is there, and the key leaves only as the
\* oldest entry of the full deque or by reset_analyzer; the rolling
\* (price, CVD) window never holds more than 20 points
C16_DivergenceOncePerKey ==
    /\ [](Len(price_history) <= 20 /\ Len(cvd_history) <= 20)
    /\ [][\A type \in DivergenceTypes :
            /\ (DivergenceStep /\ Returned(det_result', type)) =>
                   /\ ~InDeque(DivergenceKey(type), recent_alerts)
                   /\ InDeque(DivergenceKey(type), recent_alerts')
            /\ (InDeque(DivergenceKey(type), recent_alerts)
                    /\ ~InDeque(DivergenceKey(type), recent_alerts')) =>
                   \/ det_call'.op = "reset_analyzer"
                   \/ /\ Len(recent_alerts) = 100
                      /\ Head(recent_alerts) = DivergenceKey(type)
                      /\ Len(recent_alerts') = 100
         ]_vars

\* the BEARISH alert returned a second time, on a full window, after a call
\* that was suppressed and a big block that evicted the key
C16_Witness ==
    /\ n_divergence_calls = 2
    /\ Returned(det_result, "BEARISH")
    /\ Len(price_history) = 20
    /\ price_history[1] = 2600000
    /\ price_history[5] = 2610000
    /\ price_history[19] = 2610000
    /\ cvd_history[19] = 0
    /\ recent_alerts[100] = "DIVERGENCE_BEARISH"
    /\ recent_alerts[99] = BigBlockKey("BUY", 2610150)
    /\ recent_alerts[1] = WarmAlerts[2]

\* C15: detect_imbalance returns an IMBALANCE alert of severity INFO, with
\* the larger side as direction, on every call in which one side's volume is
\* at least 2.5 times the other's, and no alert otherwise; it neither reads
\* nor changes the dedup deque
C15_ImbalanceEveryCall ==
    [][det_call'.op = "detect_imbalance" =>
         LET b == det_call'.buy_volume
             sv == det_call'.sell_volume
             buy == b > sv /\ 2 * b >= 5 * sv
             sell == sv > b /\ 2 * sv >= 5 * b
         IN  /\ (buy \/ sell) =>
                    /\ det_result'.alert_type = "IMBALANCE"
                    /\ det_result'.severity = "INFO"
                    /\ det_result'.direction = IF buy THEN "BUY" ELSE "SELL"
                    /\ det_result'.price = det_call'.price
             /\ ~(buy \/ sell) => det_result' = NoAlert
             /\ recent_alerts' = recent_alerts
      ]_vars

C15_Witness ==
    /\ det_call.op = "detect_imbalance"
    /\ det_call.buy_volume = 15000
    /\ det_call.sell_volume = 6000
    /\ det_result.alert_type = "IMBALANCE"
    /\ det_result.direction = "BUY"
    /\ recent_alerts /= <<>>

\* a side is stacked when at least 3 of its quantities are >= 5000
Stacked(quantities) ==
    Cardinality({i \in 1..Len(quantities) : quantities[i] >= 5000}) >= 3

IsStackedAlert(alert, side) ==
    /\ alert.alert_type = "STACKED_ORDERS"
    /\ alert.direction = side

\* C17: detect_stacked_orders fires a STACKED_ORDERS alert for the bid side
\* whenever the bids are stacked and for the ask side whenever the asks are
\* stacked, on every such call, and nothing for a side that is not stacked
C17_StackedEachSide ==
    [][det_call'.op = "detect_stacked_orders" =>
         /\ Stacked(det_call'.bid_quantities) => IsStackedAlert(det_result', "BID")
         /\ Stacked(det_call'.ask_quantities) => IsStackedAlert(det_result', "ASK")
         /\ (~Stacked(det_call'.bid_quantities) /\ ~Stacked(det_call'.ask_quantities))
                => det_result' = NoAlert
      ]_vars

\* C17 amended: a BID alert whenever the bids are stacked; an ASK alert
\* whenever the asks are stacked and the bids are not; no alert when neither
\* side is; the dedup deque is not changed
C17_StackedBidsFirst ==
    [][det_call'.op = "detect_stacked_orders" =>
         /\ Stacked(det_call'.bid_quantities) => IsStackedAlert(det_result', "BID")
         /\ (Stacked(det_call'.ask_quantities) /\ ~Stacked(det_call'.bid_quantities))
                => IsStackedAlert(det_result', "ASK")
         /\ (~Stacked(det_call'.bid_quantities) /\ ~Stacked(det_call'.ask_quantities))
                => det_result' = NoAlert
         /\ recent_alerts' = recent_alerts
      ]_vars

C17_Witness ==
    /\ det_call.op = "detect_stacked_orders"
    /\ Stacked(det_call.bid_quantities)
    /\ Stacked(det_call.ask_quantities)
    /\ IsStackedAlert(det_result, "BID")

\* volume of one side over the levels within 5 points of the current price
VolumeNear(levels, current_price, side) ==
    SeqSum([i \in 1..Len(levels) |->
               IF /\ 100 * levels[i].price >= current_price - 500
                  /\ 100 * levels[i].price <= current_price + 500
               THEN levels[i][side] ELSE 0])

\* C18: detect_absorption returns no alert when the volume within +/-5 of
\* the current price is below 10000; otherwise a WARNING alert BUY_ABSORBING
\* when sell volume > 1.5 x buy volume, SELL_ABSORBING when buy volume >
\* 1.5 x sell volume, and no alert in the remaining case
C18_AbsorptionRule ==
    [][det_call'.op = "detect_absorption" =>
         LET bv == VolumeNear(det_call'.price_levels_data, det_call'.current_price, "buy_vol")
             sv == VolumeNear(det_call'.price_levels_data, det_call'.current_price, "sell_vol")
         IN  IF bv + sv < 10000 THEN det_result' = NoAlert
             ELSE IF 10 * sv > 15 * bv
             THEN /\ det_result'.alert_type = "ABSORPTION"
                  /\ det_result'.direction = "BUY_ABSORBING"
                  /\ det_result'.severity = "WARNING"
             ELSE IF 10 * bv > 15 * sv
             THEN /\ det_result'.alert_type = "ABSORPTION"
                  /\ det_result'.direction = "SELL_ABSORBING"
                  /\ det_result'.severity = "WARNING"
             ELSE det_result' = NoAlert
      ]_vars

C18_Witness ==
    /\ det_call.op = "detect_absorption"
    /\ Len(det_call.price_levels_data) = 2
    /\ det_call.price_levels_data[1].price = 26105
    /\ det_call.price_levels_data[2].price = 26106
    /\ det_call.current_price = 2610000
    /\ det_result.alert_type = "ABSORPTION"
    /\ det_result.direction = "BUY_ABSORBING"

\* the engine state as one value
Engine ==
    [cvd |-> cvd, total_buy_volume |-> total_buy_volume,
     total_sell_volume |-> total_sell_volume, candle_data |-> candle_data,
     current_minute |-> current_minute, footprint_data |-> footprint_data]

ResetStep == ticks /= <<>> /\ ticks' = <<>>

\* C21: reset_engine clears all counters, all candles and all footprint
\* levels: after it cvd = total buy = total sell = 0, there is no candle and
\* no footprint level, and the ticks processed since then leave the engine in
\* the state the same ticks leave a freshly started engine in
C21_ResetIsFreshStart ==
    /\ [][ResetStep =>
            /\ cvd' = 0 /\ total_buy_volume' = 0 /\ total_sell_volume' = 0
            /\ DOMAIN candle_data' = {}
            /\ DOMAIN footprint_data' = {}]_vars
    /\ [](Engine = EngineAfterTicks(FreshEngine, ticks))

\* a reset of the used engine, then three ticks in two minutes
C21_Witness ==
    /\ Len(ticks) = 3
    /\ ticks[1] /= UsedTicks[1]
    /\ ticks[1].minute = <<9, 15>>
    /\ ticks[3].minute = <<9, 16>>
    /\ Cardinality(DOMAIN footprint_data) = 2
    /\ cvd /= 0

----------------------------------------------------------------------------
(* Claims about the dedup set *)

NoKeyTwice(dq) == \A i, j \in 1..Len(dq) : dq[i] = dq[j] => i = j

\* the key whose condition fired in the call, <<>> when none fired
FiredKey ==
    IF det_call'.op = "detect_big_block"
    THEN IF Qualifies(det_call')
         THEN <<BigBlockKey(det_call'.direction, det_call'.price)>> ELSE <<>>
    ELSE IF det_call'.op = "detect_cvd_divergence"
    THEN LET fired == DivergenceOutcome_NoDedup(price_history', cvd_history', <<>>,
                                                det_call'.current_price).alert
         IN  IF fired = NoAlert THEN <<>> ELSE <<DivergenceKey(fired.direction)>>
    ELSE <<>>

\* the number of keys inserted after the key at index i
KeysAfter(dq, i) == Len(dq) - i

\* C36: the dedup set never holds a key twice; a firing whose key is in it
\* returns no alert and leaves it as it is, the key's place included; a
\* firing whose key is not in it inserts the key; and a key leaves the set
\* exactly at the insertion of the 100th key after it, big-block and
\* divergence keys counted alike
C36_DedupAgesByInsertion ==
    /\ []NoKeyTwice(recent_alerts)
    /\ [][det_call'.op \in {"detect_big_block", "detect_cvd_divergence"} =>
             LET inserted == IF FiredKey /= <<>> /\ ~InDeque(FiredKey[1], recent_alerts)
                             THEN 1 ELSE 0
             IN  /\ (FiredKey /= <<>> /\ InDeque(FiredKey[1], recent_alerts)) =>
                        recent_alerts' = recent_alerts /\ det_result' = NoAlert
                 /\ inserted = 1 =>
                        recent_alerts'[Len(recent_alerts')] = FiredKey[1]
                 /\ \A i \in 1..Len(recent_alerts) :
                        IF KeysAfter(recent_alerts, i) + inserted = RecentAlertsMaxLen
                        THEN ~InDeque(recent_alerts[i], recent_alerts')
                        ELSE \E j \in 1..Len(recent_alerts') :
                                 /\ recent_alerts'[j] = recent_alerts[i]
                                 /\ KeysAfter(recent_alerts', j) =
                                        KeysAfter(recent_alerts, i) + inserted
          ]_vars

\* the divergence key left when the 100th key after it, a big-block key, was
\* inserted; another big block came, and then the first one again, which
\* was suppressed and kept its place
C36_Witness ==
    /\ Len(recent_alerts) = RecentAlertsMaxLen
    /\ recent_alerts[1] = WarmAlerts[2]
    /\ ~InDeque("DIVERGENCE_BEARISH", recent_alerts)
    /\ recent_alerts[99] = BigBlockKey("BUY", 2610050)
    /\ recent_alerts[100] = BigBlockKey("BUY", 2610150)
    /\ det_call.op = "detect_big_block"
    /\ det_call.price = 2610050
    /\ det_result = NoAlert

----------------------------------------------------------------------------
(* Claims about the engine's views *)

\* C19: get_current_state returns the current CVD and total buy and sell
\* volumes, net_delta = total buy - total sell (equal to the CVD), the candle
\* of the most recently processed tick as the in-progress candle, and
\* imbalance_ratio = buy/sell when the total sell volume is above 0 and
\* exactly 0 when it is zero
C19_CurrentState ==
    LET state == get_current_state
        buys == SumQty(ticks, "BUY")
        sells == SumQty(ticks, "SELL")
    IN  /\ state.cvd = buys - sells
        /\ state.total_buy_volume = buys
        /\ state.total_sell_volume = sells
        /\ state.net_delta = buys - sells
        /\ state.net_delta = state.cvd
        /\ state.current_candle =
               IF ticks = <<>> THEN EmptyMap
               ELSE candle_data[LastTick(ticks).minute]
        /\ IF sells > 0
           THEN /\ state.imbalance_ratio \in Nat \X (Nat \ {0})
                /\ state.imbalance_ratio[1] * sells = buys * state.imbalance_ratio[2]
           ELSE state.imbalance_ratio = ZeroRatio

C19_Witness ==
    /\ Len(ticks) = MaxTicks
    /\ get_current_state.imbalance_ratio = <<3, 2>>
    /\ get_current_state.current_candle /= EmptyMap
    /\ get_current_state.current_candle.tick_count = 1
    /\ get_current_state.net_delta = 75

\* the numbers of levels a caller asks for: the dashboard's 15, the default
\* 20, and fewer levels than the footprint has
DisplayLevels == {0, 1, 2, 15, 20}

----------------------------------------------------------------------------
(* Claims about the frame parsers *)

LtpParsers == {"parse_ltp_packet", "angelone_parse_ltp_packet"}

\* C22: LTP decode of a buffer shorter than 51 bytes returns the failure
\* value, never a partially-populated tick: every tick parse_ltp_packet
\* returns carries both a token and a price
C22_ShortLtpFrameFails ==
    decoded.op \in LtpParsers =>
        /\ Len(message) < 51 => decoded.result = None
        /\ decoded.result /= None => DOMAIN decoded.result = {"token", "ltp"}

\* a frame of 50 bytes, which passes the length test of angelone_test.py
C22_Witness ==
    /\ decoded.op = "angelone_parse_ltp_packet"
    /\ Len(message) = 50
    /\ Utf8Decodes(Slice(message, 2, 27))
    /\ decoded.result = None

\* the token fields as text without trailing NUL bytes, and the LTP fields
\* as signed numbers
TokenTexts ==
    {<<Padded(<<51, 53, 48, 48, 49>>), "35001">>,
     <<Padded(<<57, 57, 57, 50, 54, 48, 48, 48>>), "99926000">>,
     <<Padded(<<52, 51, 50, 49, 48>>), "43210">>,
     <<Padded(<<>>), "">>,
     <<Padded(<<0, 51, 53, 48, 48, 49>>), "<NUL>35001">>}

LtpValues ==
    {<< <<130, 211, 39, 0, 0, 0, 0, 0>>, 2610050>>,
     << <<0, 0, 0, 0, 0, 0, 0, 0>>, 0>>,
     << <<255, 255, 255, 255, 255, 255, 255, 255>>, -1>>,
     << <<156, 255, 255, 255, 255, 255, 255, 255>>, -100>>}

LtpDecodedFrom51 ==
    decoded.op = "parse_ltp_packet" /\ Len(message) >= 51
        /\ Utf8Decodes(Slice(message, 2, 27))

\* the price part of C23
LtpPriceExact ==
    LtpDecodedFrom51 =>
        /\ decoded.result /= None
        /\ \E c \in LtpValues : /\ c[1] = Slice(message, 43, 51)
                                /\ decoded.result.ltp = c[2]

\* C23: for every LTP frame of length >= 51 with a decodable instrument id,
\* the decoded price is the little-endian signed 64-bit integer at bytes
\* 43..51 divided by 100, and the token is bytes 2..27 as text without
\* trailing NUL padding
C23_LtpDecodeExact ==
    /\ LtpPriceExact
    /\ LtpDecodedFrom51 =>
           \E c \in TokenTexts : /\ c[1] = Slice(message, 2, 27)
                                 /\ decoded.result.token = c[2]

SnapQuoteParsers == {"parse_snapquote_packet", "parse_full_snapquote"}

\* the depth entries of the frame whose flag is (is not) 0, in frame order
RECURSIVE EntriesOfSide(_, _, _)
EntriesOfSide(data, i, bid) ==
    IF i >= 10 THEN <<>>
    ELSE (IF (data[147 + 20 * i + 1] + 256 * data[147 + 20 * i + 2] = 0) = bid
          THEN <<i>> ELSE <<>>) \o EntriesOfSide(data, i + 1, bid)

\* C24: for every SnapQuote frame of length >= 347, whatever the flags of its
\* ten depth entries, the decoded bid arrays and ask arrays each have at most
\* 5 elements, hold the entries in frame order, first element first, and the
\* price and quantity array of a side have equal length
C24_DepthAtMostFivePerSide ==
    (/\ decoded.op \in SnapQuoteParsers
     /\ Len(message) >= 347
     /\ decoded.result /= None) =>
        LET r == decoded.result
            bid_entries == EntriesOfSide(message, 0, TRUE)
            ask_entries == EntriesOfSide(message, 0, FALSE)
        IN  /\ Len(r.best_bids) <= 5
            /\ Len(r.best_asks) <= 5
            /\ Len(r.best_bids) = Len(r.bid_qty)
            /\ Len(r.best_asks) = Len(r.ask_qty)
            /\ \A k \in 1..Min(5, Len(r.best_bids)) :
                   /\ k <= Len(bid_entries)
                   /\ r.best_bids[k] = 2610000 + 100 * bid_entries[k]
                   /\ r.bid_qty[k] = 1000 * (bid_entries[k] + 1)
            /\ \A k \in 1..Min(5, Len(r.best_asks)) :
                   /\ k <= Len(ask_entries)
                   /\ r.best_asks[k] = 2610000 + 100 * ask_entries[k]
                   /\ r.ask_qty[k] = 1000 * (ask_entries[k] + 1)

\* the parts of C24 other than the bound of five
DepthInFrameOrder ==
    (/\ decoded.op \in SnapQuoteParsers
     /\ Len(message) >= 347
     /\ decoded.result /= None) =>
        LET r == decoded.result
            bid_entries == EntriesOfSide(message, 0, TRUE)
            ask_entries == EntriesOfSide(message, 0, FALSE)
        IN  /\ Len(r.best_bids) = Len(bid_entries)
            /\ Len(r.best_asks) = Len(ask_entries)
            /\ Len(r.best_bids) = Len(r.bid_qty)
            /\ Len(r.best_asks) = Len(r.ask_qty)
            /\ \A k \in 1..Len(bid_entries) :
                   /\ r.best_bids[k] = 2610000 + 100 * bid_entries[k]
                   /\ r.bid_qty[k] = 1000 * (bid_entries[k] + 1)
            /\ \A k \in 1..Len(ask_entries) :
                   /\ r.best_asks[k] = 2610000 + 100 * ask_entries[k]
                   /\ r.ask_qty[k] = 1000 * (ask_entries[k] + 1)

\* the writes of status.tick_count among pending store writes
TickCountWrites(todo) ==
    {i \in DOMAIN todo : todo[i][1] = "set" /\ todo[i][2] = "status"
                            /\ todo[i][3] = "tick_count"}

FrameStep == decoded'.op = "on_message" /\ <<message, decoded>>' /= <<message, decoded>>

\* C25: on every inbound frame the feed client tries SnapQuote decode first
\* and LTP decode second and applies exactly the first successful result to
\* the store: a frame of length >= 155 with a decodable id is applied as a
\* SnapQuote tick, one of 51..154 bytes as an LTP tick, and each frame causes
\* at most one update_data_store call
C25_FirstDecodeApplied ==
    /\ [](decoded.op = "on_message" =>
            \A id_ok \in {Utf8Decodes(Slice(message, 2, 27))} :
              /\ (Len(message) >= 155 /\ id_ok) =>
                     /\ decoded.result /= None
                     /\ {"ltq", "total_buy_qty", "best_bids"} \subseteq DOMAIN decoded.result
              /\ (Len(message) \in 51..154 /\ id_ok) =>
                     /\ decoded.result /= None
                     /\ DOMAIN decoded.result = {"token", "ltp"}
              /\ (Len(message) < 51 \/ ~id_ok) => decoded.result = None
              /\ (w_todo = <<>> /\ decoded.result /= None) =>
                     data_store = ApplyWrites(store_before,
                                      StoreWrites(decoded.result, store_before,
                                          <<store_before.status.tick_count + 1>>)))
    /\ [][/\ FrameStep =>
               /\ Cardinality(TickCountWrites(w_todo')) =
                      (IF decoded'.result = None THEN 0 ELSE 1)
               /\ decoded'.result = None => w_todo' = <<>>
               /\ data_store' = data_store
          /\ data_store'.status.tick_count /= data_store.status.tick_count =>
               /\ ~FrameStep
               /\ data_store'.status.tick_count = data_store.status.tick_count + 1
               /\ TickCountWrites(w_todo') = {}]_vars

\* a 347-byte frame of the futures was applied as a SnapQuote tick after a
\* 51-byte frame of the index was applied as an LTP tick
C25_Witness ==
    /\ decoded.op = "on_message"
    /\ Len(message) = 347
    /\ decoded.result /= None
    /\ w_todo = <<>>
    /\ data_store.status.tick_count = 2
    /\ DictGet(data_store.futures, "ltq", 0) = 75
    /\ Len(data_store.depth.best_bids) = 5
    /\ data_store.spot.ltp = 2610050

\* no decode mode can succeed: the frame is too short for an LTP tick, or
\* its instrument id is not UTF-8
Undecodable(frame) == Len(frame) < 51 \/ ~Utf8Decodes(Slice(frame, 2, 27))

\* C31: a frame for which every decode mode fails (too short, or undecodable
\* instrument id) is dropped silently: the store is left entirely unchanged,
\* status.tick_count, status.last_tick and the connection flag included, no
\* update is started and the handler returns
C31_UndecodableFrameDropped ==
    [][(FrameStep /\ Undecodable(message')) =>
           /\ decoded'.result = None
           /\ data_store' = data_store
           /\ w_todo' = <<>>
           /\ UNCHANGED <<store_before, instants, connVars>>]_vars

\* a full-length frame with an id that does not decode was received after a
\* tick had been applied
C31_Witness ==
    /\ decoded.op = "on_message"
    /\ decoded.result = None
    /\ Len(message) = 347
    /\ ~Utf8Decodes(Slice(message, 2, 27))
    /\ data_store.status.tick_count = 1
    /\ w_todo = <<>>

----------------------------------------------------------------------------
(* Claims about the writers of the store *)

\* a step of a handler of the HTTP API: a response is returned, or get_tick
\* moves to its next statement
HandlerStep == resp' /= resp \/ t_pc' /= t_pc \/ futures_data' /= futures_data

\* C28: once the feed is running, the ingestion task is the sole writer of
\* the store: no handler of the HTTP API (health, spot, futures, options,
\* option, depth, all, tick, status) changes any field of data_store, for
\* any interleaving of requests and ticks
C28_FeedIsSoleWriter ==
    [][/\ HandlerStep => data_store' = data_store
       /\ data_store' /= data_store =>
              /\ w_todo /= <<>>
              /\ data_store' = ApplyWrite(data_store, Head(w_todo))
              /\ ~HandlerStep]_vars

\* get_tick has answered with a body that differs from the futures section
\* it copied, while update_data_store is between two writes
C28_Witness ==
    /\ resp.endpoint = "/tick"
    /\ resp.body /= data_store.futures
    /\ "best_bids" \in DOMAIN resp.body
    /\ "best_bids" \notin DOMAIN data_store.futures
    /\ w_todo /= <<>>
    /\ data_store.status.tick_count > 0

----------------------------------------------------------------------------
(* Claims about the classifier's determinism *)

----------------------------------------------------------------------------
(* Claims about the polling loop: reads that give nothing, writes that fail *)

\* the loop has made one more pass
PassMade == cycle'.n = cycle.n + 1

\* the read timed out, failed, or returned no data or an ltp <= 0
NoNewData(response) ==
    \/ response.kind /= "ok"
    \/ response.body = EmptyMap
    \/ DictGet(response.body, "ltp", 0) <= 0

PollLoopSurvives ==
    [][PassMade => poll'.pc = "idle" /\ run_pc' = "running"]_vars

\* the pass after a failed candle write calls save_candle for the same minute
\* as soon as it handles a tick
CandleWriteRetried ==
    [][(PassMade /\ cycle.error = "candle" /\ cycle'.fetch = "tick") =>
           /\ current_minute \in DOMAIN candle_data
           /\ \/ cycle'.error = "candle"
              \/ candle_log' = Append(candle_log,
                                      CandleRow(current_minute, candle_data[current_minute]))]_vars

\* C27: a write or flush error while persisting a candle, an alert or a tick
\* row never blocks or crashes the analytics path: the loop keeps running,
\* the ticks it gets are still processed (each goes through process_tick and
\* analyze_tick), and a failed candle write is attempted again on the next
\* event
C27_WriteErrorNotFatal ==
    [][(PassMade /\ cycle'.fetch = "tick") =>
           /\ poll'.pc = "idle" /\ run_pc' = "running"
           /\ Len(ticks') = Len(ticks) + 1
           /\ n_divergence_calls' = n_divergence_calls + 1
           /\ cycle.error = "candle" =>
                  \/ cycle'.error = "candle"
                  \/ Len(candle_log') = Len(candle_log) + 1]_vars

\* the candle write failed twice: two ticks are in the totals and in no candle
\* and were never given to analyze_tick
C27_TicksAbandoned ==
    /\ cycle.n = 3
    /\ cycle.error = "candle"
    /\ Len(fetched) = 3
    /\ Len(ticks) = 1
    /\ n_divergence_calls = 1
    /\ candle_log = <<>>

\* the volume the candles hold, and the volume the session totals hold
CandleVolume(cd) ==
    CandleSum(cd, DOMAIN cd, "buy_vol") + CandleSum(cd, DOMAIN cd, "sell_vol")

EngineState ==
    <<cvd, total_buy_volume, total_sell_volume, footprint_data, candle_data, current_minute>>

\* the pass handled a tick whose process_tick call ended in save_candle raising
CandleWriteRaised == PassMade /\ cycle'.fetch = "tick" /\ cycle'.error = "candle"

\* C35: when save_candle raises at a minute rollover, process_tick has either
\* applied the tick in full (the totals, the CVD, the footprint and a candle
\* include its quantity) or left the engine state as it was; the quantity is
\* never in the totals and in no candle
C35_TickAllOrNothing ==
    [][CandleWriteRaised =>
           \/ EngineState' = EngineState
           \/ /\ total_buy_volume' + total_sell_volume' =
                      total_buy_volume + total_sell_volume + cycle'.response.body.ltq
              /\ CandleVolume(candle_data') =
                      CandleVolume(candle_data) + cycle'.response.body.ltq]_vars

\* what process_tick leaves when save_candle raises: the tick is in the
\* totals, the CVD and the footprint, and the candles and the current minute
\* are as before the call
TickHalfApplied ==
    [][CandleWriteRaised =>
           /\ total_buy_volume' + total_sell_volume' =
                  total_buy_volume + total_sell_volume + cycle'.response.body.ltq
           /\ cvd' \in {cvd + cycle'.response.body.ltq, cvd - cycle'.response.body.ltq}
           /\ footprint_data' /= footprint_data
           /\ candle_data' = candle_data
           /\ current_minute' = current_minute]_vars

\* a tick's quantity is in the totals and in no candle
TickInNoCandle ==
    /\ cycle.error = "candle"
    /\ Len(ticks) = 1
    /\ CandleVolume(candle_data) = ticks[1].quantity
    /\ total_buy_volume + total_sell_volume > CandleVolume(candle_data)

\* the (ltp, ltq) of the tick on_tick was called with last, (0, 0) before
\* the first call
LastProcessed ==
    IF fetched = <<>> THEN <<0, 0>>
    ELSE <<fetched[Len(fetched)].ltp, fetched[Len(fetched)].ltq>>

\* the answer holds a tick with ltp > 0 whose (ltp, ltq) is not the pair
\* processed last
NewTick(response) ==
    /\ ~NoNewData(response)
    /\ <<response.body.ltp, DictGet(response.body, "ltq", 0)>> /= LastProcessed

\* C37: a pass of the polling loop calls on_tick with the polled tick if and
\* only if its ltp is above 0 and its (ltp, ltq) differs from the pair of
\* the tick processed last; so a snapshot that does not change is processed
\* once, and no two successive on_tick calls have the same (ltp, ltq)
C37_OnTickIffNewPair ==
    /\ [](\A i \in 1..(Len(fetched) - 1) :
              <<fetched[i].ltp, fetched[i].ltq>> /= <<fetched[i + 1].ltp, fetched[i + 1].ltq>>)
    /\ [][PassMade =>
             IF NewTick(cycle'.response)
             THEN /\ fetched' = Append(fetched, cycle'.response.body)
                  /\ dashboard'.tick_count = dashboard.tick_count + 1
                  /\ cls_call'.ltp = cycle'.response.body.ltp
             ELSE /\ UNCHANGED <<fetched, dashboard, cls_call, classifierVars>>
                  /\ UNCHANGED <<engineVars, analyzerVars>>]_vars

\* a trade was processed, then one at the same price with another quantity,
\* and the third pass got that snapshot again and skipped it
C37_Witness ==
    /\ cycle.n = 3
    /\ cycle.fetch = "stale"
    /\ Len(fetched) = 2
    /\ fetched[1].ltp = fetched[2].ltp
    /\ fetched[1].ltq /= fetched[2].ltq
    /\ cycle.response.body = fetched[2]
    /\ dashboard.tick_count = 2

----------------------------------------------------------------------------
(* Claims about the footprint the consumer hands to the analyzer *)

\* every level of the footprint, as get_footprint_for_display formats one
AllLevels(fp) == EntriesByPriceDesc(fp, DOMAIN fp)

\* on_tick returned from a pass that got a tick
TickAnalyzed == PassMade /\ cycle'.fetch = "tick" /\ cycle'.error = "none"

AbsorptionAlerts(alerts) == SelectSeq(alerts, LAMBDA a : a.alert_type = "ABSORPTION")

\* C38: in on_tick -> analyze_tick, detect_absorption sums the buy and the
\* sell volume of every footprint level within 5 points of the tick price:
\* its sums are the footprint's volumes in that range, and its alert is the
\* one those volumes give, however many levels the footprint holds
C38_AbsorptionOverWholeRange ==
    [][TickAnalyzed =>
         LET ltp == cycle'.response.body.ltp
             handed == FootprintForDisplay(footprint_data', 20)
             whole == AllLevels(footprint_data')
         IN  /\ VolInRange(handed, ltp, "buy_vol") = VolInRange(whole, ltp, "buy_vol")
             /\ VolInRange(handed, ltp, "sell_vol") = VolInRange(whole, ltp, "sell_vol")
             /\ AbsorptionAlerts(det_result') =
                    AbsorptionAlerts(<<AbsorptionOutcome(whole, ltp)>>)]_vars

\* what holds: the sums are those of the levels in range that are among the
\* 20 levels of the largest total volume, and they are the footprint's
\* volumes in range while it holds no more than 20 levels
AbsorptionOverTopLevels ==
    [][TickAnalyzed =>
         LET ltp == cycle'.response.body.ltp
             handed == FootprintForDisplay(footprint_data', 20)
             whole == AllLevels(footprint_data')
         IN  /\ Len(handed) <= 20
             /\ AbsorptionAlerts(det_result') =
                    AbsorptionAlerts(<<AbsorptionOutcome(handed, ltp)>>)
             /\ Cardinality(DOMAIN footprint_data') <= 20 =>
                    /\ VolInRange(handed, ltp, "buy_vol") = VolInRange(whole, ltp, "buy_vol")
                    /\ VolInRange(handed, ltp, "sell_vol") = VolInRange(whole, ltp, "sell_vol")]_vars

\* 10000 and more were sold within 5 points of the tick price, against less
\* than two thirds of that bought, and analyze_tick returned no absorption
\* alert
AbsorptionMissed ==
    /\ cycle.n > SessionPasses
    /\ cycle.fetch = "tick"
    /\ Cardinality(DOMAIN footprint_data) > 20
    /\ AbsorptionOutcome(AllLevels(footprint_data), cycle.response.body.ltp) /= NoAlert
    /\ AbsorptionAlerts(det_result) = <<>>

----------------------------------------------------------------------------
(* Claims about the alerts the consumer keeps *)

\* the last n elements of a sequence
LastN(seq, n) == SubSeq(seq, Max(1, Len(seq) - n + 1), Len(seq))

\* C30: every alert analyze_tick returns for a tick is appended, in the order
\* returned, to the recent-alert window and to the alert log; the window
\* never holds more than MAX_ALERTS alerts and drops its oldest alert first
C30_AlertsToWindowAndLog ==
    /\ [][(poll.pc = "analyze" /\ poll'.pc = "idle") =>
              /\ alerts_log' = alerts_log \o AlertRows(det_result')
              /\ dashboard'.alert_history =
                     LastN(dashboard.alert_history \o det_result', MAX_ALERTS)]_vars
    /\ [](/\ Len(dashboard.alert_history) <= MAX_ALERTS
          /\ AlertRows(dashboard.alert_history) = LastN(alerts_log, MAX_ALERTS))

\* more alerts were returned than the window holds
C30_Witness ==
    /\ Len(alerts_log) > MAX_ALERTS
    /\ Len(dashboard.alert_history) = MAX_ALERTS
    /\ poll.pc = "idle"

----------------------------------------------------------------------------
(* Claims about the consumer *)

\* the states of the polling thread in which process_tick has changed part
\* of the engine state and not yet all of it
MidProcessTick == {"footprint", "candle"}

\* C14: within one consumer process the engine and analyzer state is confined
\* to one logical sequence: ticks are processed in the order they were read,
\* each on_tick completes before the next begins, and no other thread (the
\* chart refresh) reads the engine state while a process_tick is in progress
C14_EngineConfined ==
    /\ Len(ticks) <= Len(fetched)
    /\ Len(fetched) <= Len(ticks) + 1
    /\ \A i \in 1..Len(ticks) :
           /\ ticks[i].price = fetched[i].ltp
           /\ ticks[i].quantity = fetched[i].ltq
    /\ (poll.pc = "idle") => Len(fetched) = Len(ticks)
    /\ chart.during \notin MidProcessTick

----------------------------------------------------------------------------
(* Claims about the shared store *)

\* the snapshot of one instrument in the store ds
Snapshot(ds, instrument) ==
    IF instrument = "spot" THEN ds.spot
    ELSE IF instrument = "futures" THEN ds.futures
    ELSE DictGet(ds.options, instrument, EmptyMap)

\* the instrument snapshots a response carries
SnapshotsIn(r) ==
    CASE r.endpoint = "/spot" -> {<<"spot", r.body>>}
      [] r.endpoint = "/futures" -> {<<"futures", r.body>>}
      [] r.endpoint = "/options" -> {<<t, r.body[t]>> : t \in DOMAIN r.body}
      [] r.endpoint = "/option/" \o OptionToken -> {<<OptionToken, r.body>>}
      [] r.endpoint = "/all" ->
             {<<"spot", r.body.spot>>, <<"futures", r.body.futures>>}
             \cup {<<t, r.body.options[t]>> : t \in DOMAIN r.body.options}
      [] OTHER -> {}

\* C10: no response holds a partially-updated instrument snapshot: every
\* snapshot served is the instrument as it was before the tick being applied
\* or as it is once that tick is fully applied
C10_NoPartialSnapshot ==
    [][resp' /= resp =>
         \A s \in SnapshotsIn(resp') :
             \/ s[2] = Snapshot(store_before, s[1])
             \/ s[2] = Snapshot(ApplyWrites(data_store, w_todo), s[1])
      ]_vars

\* the /tick body of a request served entirely on the store ds
TickView(ds) == TickMerge(ds.futures, ds, TickReads)

\* C11: the /tick response equals the values the store held at one single
\* instant between two writer updates, never a mix of futures fields from one
\* tick and depth or ltq from another
C11_TickPointInTime ==
    resp.endpoint = "/tick" => \E ds \in instants : resp.body = TickView(ds)

----------------------------------------------------------------------------
(* Claims about the feed connection *)

\* the feed thread ran a statement of update_data_store
UpdateStep == w_todo /= <<>> /\ w_todo' = Tail(w_todo) /\ data_store' /= data_store

\* on_error or on_close was called
DisconnectStep == conn_pc' \in {"closing", "ended"} /\ conn_pc' /= conn_pc /\ link' = "down"

\* C39: update_data_store for a tick changes, of the instruments, only the
\* tick's own (the spot, the futures, or the option of its token), the depth
\* ladder only for a futures tick with non-empty bids, and of the status
\* only tick_count, by one, and last_tick; on_error and on_close change
\* status.connected and nothing else of the store
C39_TickChangesOwnInstrument ==
    [][/\ UpdateStep =>
              LET token == decoded.result.token
                  before == store_before
                  after == data_store'
              IN  /\ token /= NIFTY_TOKEN => after.spot = before.spot
                  /\ token /= before.futures.token => after.futures = before.futures
                  /\ \A t \in DOMAIN before.options :
                         t /= token =>
                             t \in DOMAIN after.options /\ after.options[t] = before.options[t]
                  /\ DOMAIN after.options \subseteq DOMAIN before.options \cup {token}
                  /\ token \in {NIFTY_TOKEN, before.futures.token} =>
                         after.options = before.options
                  /\ after.depth /= before.depth =>
                         /\ token = before.futures.token
                         /\ DictGet(decoded.result, "best_bids", <<>>) /= <<>>
                  /\ after.status.tick_count = before.status.tick_count + 1
                  /\ after.status.connected = before.status.connected
                  /\ after.status.subscribed_tokens = before.status.subscribed_tokens
                  /\ after.expiry = before.expiry
       /\ DisconnectStep =>
              /\ data_store' = [data_store EXCEPT !.status.connected = FALSE]
              /\ UNCHANGED <<w_todo, store_before, futures_data>>]_vars

\* an option tick was applied after a tick of another option, and the
\* connection was lost after it: both options are in the store as applied
C39_Witness ==
    /\ link = "down"
    /\ conn_pc = "ended"
    /\ ~data_store.status.connected
    /\ data_store.status.tick_count = 2
    /\ w_todo = <<>>
    /\ decoded.result.token = OtherOptionToken
    /\ DOMAIN data_store.options = {OptionToken, OtherOptionToken}
    /\ data_store.options[OptionToken].ltp = 12050
    /\ data_store.options[OtherOptionToken].ltp = 9050

ModeRequests(mode) == SelectSeq(sent, LAMBDA r : r.params.mode = mode)

\* the requests of the connection that is open now are out: one SnapQuote
\* request with every tracked token but the index one, one LTP request
\* with the index token
SubscriptionsSent ==
    /\ Len(sent) = 2
    /\ Len(ModeRequests(3)) = 1
    /\ ModeRequests(3)[1].params.tokenList[1].tokens = <<FuturesToken, OptionToken, OtherOptionToken>>
    /\ Len(ModeRequests(1)) = 1
    /\ ModeRequests(1)[1].params.tokenList[1].tokens = <<NIFTY_TOKEN>>

\* C32: each time a connection opens, the first one and every one after a
\* failure or a close, on_open sends the two subscription requests anew (a
\* SnapQuote one with the futures and option tokens and without the index
\* token, an LTP one with the index token) and sets status.subscribed_tokens
\* to the number of tracked tokens, and no tick is applied to the store
\* before that
C32_SubscribesOnEveryOpen ==
    [][/\ (conn_pc' = "open" /\ conn_pc /= "open") =>
              /\ sent = <<>>
              /\ SubscriptionsSent'
              /\ data_store'.status.subscribed_tokens = Len(ws_tokens)
       /\ (data_store'.status.tick_count /= data_store.status.tick_count) =>
              /\ conn_pc = "open"
              /\ SubscriptionsSent]_vars

\* the second connection, opened after the first one failed while it
\* connected or ended, has its subscriptions out and took a tick
C32_Witness ==
    /\ n_opens = MaxOpens
    /\ conn_pc = "open"
    /\ SubscriptionsSent
    /\ data_store.status.subscribed_tokens = 4
    /\ data_store.status.tick_count > 0

\* C12: whenever the feed connection ends, by error or by clean close, the
\* feed client eventually starts a new connection attempt, after any number
\* of consecutive failures: it never stops retrying
C12_AlwaysRetries ==
    (link = "down" /\ conn_pc \in {"closing", "ended", "sleeping"}) ~> (conn_pc = "connecting")

C12_Witness ==
    /\ conn_pc = "connecting"
    /\ failures = MaxFailures
    /\ n_opens > 0

\* C13: status.connected is true whenever the feed connection is open and
\* false whenever it is closed or has failed, and /status and /health
\* answer with the current connection state
C13_ConnectedFlagTracksLink ==
    [][/\ data_store'.status.connected = (link' = "up")
       /\ (resp' /= resp /\ resp'.endpoint \in StatusEndpoints)
              => resp'.body.connected = (link' = "up")]_vars

C13_Witness ==
    /\ n_opens = MaxOpens
    /\ link = "up"
    /\ resp.endpoint = "/health"
    /\ resp.body.connected

====
